---- MODULE Spec2Model ----
(***************************************************************************)
(* A model of the validation engine (src/lib/validation-engine.ts): the    *)
(* engine instance with its three collections, setData, and validateAll    *)
(* with its battery of checks.  Strings are TLC strings, so the template   *)
(* literals that build defect ids and messages are modelled by real string *)
(* concatenation.  Numbers are integers.                                   *)
(***************************************************************************)
EXTENDS Integers, Sequences, FiniteSets, TLC

VARIABLES
    clients,    \* ValidationEngine.clients
    workers,    \* ValidationEngine.workers
    tasks,      \* ValidationEngine.tasks
    cur,        \* the most recent validateAll call on this engine: inputs and outcome
    prev,       \* the validateAll call before that one
    state,      \* DataState: the store that dataReducer maintains
    pending,    \* the effect of ValidationPanel is due: a collection was replaced
    ai,         \* runAiValidation between its await and its resumption, with its closure
    exported    \* what the most recent exportData did

vars == <<clients, workers, tasks, cur, prev, state, pending, ai, exported>>

\* the variables of the application around the engine
appVars == <<state, pending, ai, exported>>

----------------------------------------------------------------------------
(* Bounds of the model *)

MaxRecords == 2     \* records per collection
MaxDup == 3         \* records per collection where identifiers repeat
MaxList == 2        \* entries of a list field
NumRandom == 2      \* distinct values Math.random() may return
MaxStaff == 3       \* workers and tasks together, where skills are matched
MaxAiDefects == 1   \* defects of the AI service in the stored list
MaxErased == 2      \* records in the three collections together, where identifiers are erased
MaxMissing == 2     \* records in the three collections together, where names are missing too

----------------------------------------------------------------------------
(* Generic helpers *)

SeqsUpTo(S, n) == UNION {[1..k -> S] : k \in 0..n}

Range(s) == {s[i] : i \in 1..Len(s)}

RECURSIVE Flatten(_)
Flatten(ss) == IF Len(ss) = 0 THEN <<>> ELSE Head(ss) \o Flatten(Tail(ss))

\* s with x inserted so that it becomes entry i
InsertAt(s, i, x) == SubSeq(s, 1, i - 1) \o <<x>> \o SubSeq(s, i, Len(s))

----------------------------------------------------------------------------
(* Record model.  A list field is either an array or not one; a field that *)
(* is absent reads as undefined, which is not an array.                    *)

Arr(items) == [isArray |-> TRUE, items |-> items]
NotArray == [isArray |-> FALSE, items |-> <<>>]

Client(id, name, prio, req, json) ==
    [ClientID |-> id, ClientName |-> name, PriorityLevel |-> prio,
     RequestedTaskIDs |-> req, GroupTag |-> "", AttributesJSON |-> json]

Worker(id, name, skills, slots, load) ==
    [WorkerID |-> id, WorkerName |-> name, Skills |-> skills,
     AvailableSlots |-> slots, MaxLoadPerPhase |-> load,
     WorkerGroup |-> "", QualificationLevel |-> 1]

Task(id, name, dur, skills, phases, conc) ==
    [TaskID |-> id, TaskName |-> name, Category |-> "", Duration |-> dur,
     RequiredSkills |-> skills, PreferredPhases |-> phases, MaxConcurrent |-> conc]

ValidationError(id, type, entity, entityId, field, message, severity) ==
    [id |-> id, type |-> type, entity |-> entity, entityId |-> entityId,
     field |-> field, message |-> message, severity |-> severity]

\* the value read from a field that the record does not have
Undefined == "<undefined>"

\* !x for a string or undefined: the empty string and undefined are falsy
Falsy(x) == x \in {"", Undefined}

\* `${x}` for a string or undefined
TemplateString(x) == IF x = Undefined THEN "undefined" ELSE x

\* Numbers.  An integer below FractionBase is held as itself.  A number that
\* is not an integer, k + 0.5 (0 <= k), is held as FractionBase + k.  An
\* integer from 2^32 - 1 on, which is too large to be an array index,
\* 4294967295 + k (0 <= k <= 4), is held as LargeBase + k.  The order of
\* the integers is the order of what holds them.
FractionBase == 100
LargeBase == 1000

\* Number.isInteger(x)
NumberIsInteger(x) == x < FractionBase \/ x >= LargeBase

\* x < 1 for a number: of the fractions only 0.5 is below 1
LessThanOne(x) == IF NumberIsInteger(x) THEN x < 1 ELSE x = FractionBase

\* `${x}` for a number
NumberString(x) ==
    IF x < FractionBase THEN ToString(x)
    ELSE IF x < LargeBase THEN ToString(x - FractionBase) \o ".5"
    ELSE "42949672" \o ToString(95 + (x - LargeBase))

\* Math.random(): one of NumRandom distinct fractions, rendered as in a template
RandomValues == {"0." \o ToString(i) : i \in 1..NumRandom}

\* JSON.parse(text) raises for anything but JSON text; an absent field reads
\* as undefined, which is no JSON text either
JSONTexts == {"{}", "{\"k\":1}", "[]", "null"}
JSONParseThrows(text) == text \notin JSONTexts

----------------------------------------------------------------------------
(* Check 1: required-field presence.  Each defect takes its id suffix from *)
(* its own Math.random() call; rnd lists the values drawn, in call order.  *)

MissingOfClient(client) ==
    (IF Falsy(client.ClientID)
     THEN <<ValidationError("missing-client-id-", "missing_required_field", "clients",
                            IF Falsy(client.ClientID) THEN "unknown" ELSE client.ClientID,
                            "ClientID", "ClientID is required", "error")>>
     ELSE <<>>)
    \o
    (IF Falsy(client.ClientName)
     THEN <<ValidationError("missing-client-name-", "missing_required_field", "clients",
                            client.ClientID,
                            "ClientName", "ClientName is required", "error")>>
     ELSE <<>>)

MissingOfWorker(worker) ==
    (IF Falsy(worker.WorkerID)
     THEN <<ValidationError("missing-worker-id-", "missing_required_field", "workers",
                            IF Falsy(worker.WorkerID) THEN "unknown" ELSE worker.WorkerID,
                            "WorkerID", "WorkerID is required", "error")>>
     ELSE <<>>)
    \o
    (IF Falsy(worker.WorkerName)
     THEN <<ValidationError("missing-worker-name-", "missing_required_field", "workers",
                            worker.WorkerID,
                            "WorkerName", "WorkerName is required", "error")>>
     ELSE <<>>)

MissingOfTask(task) ==
    (IF Falsy(task.TaskID)
     THEN <<ValidationError("missing-task-id-", "missing_required_field", "tasks",
                            IF Falsy(task.TaskID) THEN "unknown" ELSE task.TaskID,
                            "TaskID", "TaskID is required", "error")>>
     ELSE <<>>)
    \o
    (IF Falsy(task.TaskName)
     THEN <<ValidationError("missing-task-name-", "missing_required_field", "tasks",
                            task.TaskID,
                            "TaskName", "TaskName is required", "error")>>
     ELSE <<>>)

\* the defects of check 1 in push order, their ids still without the random suffix
MissingRequiredDraft(cs, ws, ts) ==
    Flatten([i \in 1..Len(cs) |-> MissingOfClient(cs[i])])
    \o Flatten([i \in 1..Len(ws) |-> MissingOfWorker(ws[i])])
    \o Flatten([i \in 1..Len(ts) |-> MissingOfTask(ts[i])])

\* how many times check 1 calls Math.random()
RandomCalls(cs, ws, ts) == Len(MissingRequiredDraft(cs, ws, ts))

\* a variant that stops at the first defect of a record: a record without
\* identifier is not checked for its name
validateMissingRequiredColumns_FirstOnly(cs, ws, ts, rnd) ==
    LET FirstOf(defects) == IF Len(defects) = 0 THEN <<>> ELSE <<Head(defects)>>
        draft == Flatten([i \in 1..Len(cs) |-> FirstOf(MissingOfClient(cs[i]))])
                 \o Flatten([i \in 1..Len(ws) |-> FirstOf(MissingOfWorker(ws[i]))])
                 \o Flatten([i \in 1..Len(ts) |-> FirstOf(MissingOfTask(ts[i]))])
    IN  [k \in 1..Len(draft) |-> [draft[k] EXCEPT !.id = @ \o rnd[k]]]

\* a variant that puts the random suffix into the entity key as well
validateMissingRequiredColumns_RandomKey(cs, ws, ts, rnd) ==
    LET draft == MissingRequiredDraft(cs, ws, ts)
    IN  [k \in 1..Len(draft) |->
            [draft[k] EXCEPT !.id = @ \o rnd[k], !.entityId = "unknown-" \o rnd[k]]]

validateMissingRequiredColumns(cs, ws, ts, rnd) ==
    LET draft == MissingRequiredDraft(cs, ws, ts)
    IN  [k \in 1..Len(draft) |-> [draft[k] EXCEPT !.id = @ \o rnd[k]]]

----------------------------------------------------------------------------
(* Check 2: duplicate identifiers.  The Set of identifiers seen so far is, *)
(* at record i, the identifiers of records 1..i-1.                         *)

ClientIDsOf(cs) == [i \in 1..Len(cs) |-> cs[i].ClientID]
WorkerIDsOf(ws) == [i \in 1..Len(ws) |-> ws[i].WorkerID]
TaskIDsOf(ts) == [i \in 1..Len(ts) |-> ts[i].TaskID]

DuplicateClientIDs(cs) ==
    Flatten([i \in 1..Len(cs) |->
        LET clientIds == {cs[j].ClientID : j \in 1..(i - 1)}
        IN  IF cs[i].ClientID \in clientIds
            THEN <<ValidationError("duplicate-client-" \o TemplateString(cs[i].ClientID), "duplicate_id",
                                   "clients", cs[i].ClientID, "ClientID",
                                   "Duplicate ClientID: " \o TemplateString(cs[i].ClientID), "error")>>
            ELSE <<>>])

DuplicateWorkerIDs(ws) ==
    Flatten([i \in 1..Len(ws) |->
        LET workerIds == {ws[j].WorkerID : j \in 1..(i - 1)}
        IN  IF ws[i].WorkerID \in workerIds
            THEN <<ValidationError("duplicate-worker-" \o TemplateString(ws[i].WorkerID), "duplicate_id",
                                   "workers", ws[i].WorkerID, "WorkerID",
                                   "Duplicate WorkerID: " \o TemplateString(ws[i].WorkerID), "error")>>
            ELSE <<>>])

DuplicateTaskIDs(ts) ==
    Flatten([i \in 1..Len(ts) |->
        LET taskIds == {ts[j].TaskID : j \in 1..(i - 1)}
        IN  IF ts[i].TaskID \in taskIds
            THEN <<ValidationError("duplicate-task-" \o TemplateString(ts[i].TaskID), "duplicate_id",
                                   "tasks", ts[i].TaskID, "TaskID",
                                   "Duplicate TaskID: " \o TemplateString(ts[i].TaskID), "error")>>
            ELSE <<>>])

\* a variant that keeps one Set of seen identifiers for all three collections
validateDuplicateIDs_SharedSet(cs, ws, ts) ==
    LET ids == ClientIDsOf(cs) \o WorkerIDsOf(ws) \o TaskIDsOf(ts)
        kinds == [i \in 1..Len(cs) |-> "client"] \o [i \in 1..Len(ws) |-> "worker"]
                 \o [i \in 1..Len(ts) |-> "task"]
    IN  Flatten([n \in 1..Len(ids) |->
            IF ids[n] \in {ids[m] : m \in 1..(n - 1)}
            THEN <<ValidationError("duplicate-" \o kinds[n] \o "-" \o ids[n], "duplicate_id",
                                   kinds[n] \o "s", ids[n],
                                   IF kinds[n] = "client" THEN "ClientID"
                                   ELSE IF kinds[n] = "worker" THEN "WorkerID" ELSE "TaskID",
                                   "Duplicate ID: " \o ids[n], "error")>>
            ELSE <<>>])

validateDuplicateIDs(cs, ws, ts) ==
    DuplicateClientIDs(cs) \o DuplicateWorkerIDs(ws) \o DuplicateTaskIDs(ts)

----------------------------------------------------------------------------
(* Check 3: malformed lists.  An entry of AvailableSlots is flagged when   *)
(* it is not an integer or is below 1.                                     *)

MalformedOfWorker(worker) ==
    IF ~worker.AvailableSlots.isArray
    THEN <<ValidationError("malformed-slots-" \o TemplateString(worker.WorkerID), "malformed_list",
                           "workers", worker.WorkerID, "AvailableSlots",
                           "AvailableSlots must be an array of numbers", "error")>>
    ELSE LET slots == worker.AvailableSlots.items
         IN  Flatten([k \in 1..Len(slots) |->
                IF ~NumberIsInteger(slots[k]) \/ LessThanOne(slots[k])
                THEN <<ValidationError(
                         "invalid-slot-" \o TemplateString(worker.WorkerID) \o "-" \o NumberString(slots[k]),
                         "malformed_list", "workers", worker.WorkerID, "AvailableSlots",
                         "Invalid slot value: " \o NumberString(slots[k])
                             \o ". Must be positive integer", "error")>>
                ELSE <<>>])

validateMalformedLists(ws) ==
    Flatten([i \in 1..Len(ws) |-> MalformedOfWorker(ws[i])])

----------------------------------------------------------------------------
(* Check 4: out-of-range scalars: clients, then tasks, then workers.       *)

\* a variant whose priority bounds are exclusive: 1 and 5 are flagged as well
validateOutOfRangeValues_Exclusive(cs, ws, ts) ==
    Flatten([i \in 1..Len(cs) |->
        IF cs[i].PriorityLevel <= 1 \/ cs[i].PriorityLevel >= 5
        THEN <<ValidationError("invalid-priority-" \o TemplateString(cs[i].ClientID), "out_of_range",
                 "clients", cs[i].ClientID, "PriorityLevel",
                 "PriorityLevel must be between 1 and 5, got "
                     \o ToString(cs[i].PriorityLevel), "error")>>
        ELSE <<>>])
    \o
    Flatten([i \in 1..Len(ts) |->
        IF ts[i].Duration < 1
        THEN <<ValidationError("invalid-duration-" \o TemplateString(ts[i].TaskID), "out_of_range",
                 "tasks", ts[i].TaskID, "Duration",
                 "Duration must be at least 1, got " \o ToString(ts[i].Duration),
                 "error")>>
        ELSE <<>>])
    \o
    Flatten([i \in 1..Len(ws) |->
        IF ws[i].MaxLoadPerPhase < 1
        THEN <<ValidationError("invalid-load-" \o TemplateString(ws[i].WorkerID), "out_of_range",
                 "workers", ws[i].WorkerID, "MaxLoadPerPhase",
                 "MaxLoadPerPhase must be at least 1, got "
                     \o ToString(ws[i].MaxLoadPerPhase), "error")>>
        ELSE <<>>])

validateOutOfRangeValues(cs, ws, ts) ==
    Flatten([i \in 1..Len(cs) |->
        IF cs[i].PriorityLevel < 1 \/ cs[i].PriorityLevel > 5
        THEN <<ValidationError("invalid-priority-" \o TemplateString(cs[i].ClientID), "out_of_range",
                 "clients", cs[i].ClientID, "PriorityLevel",
                 "PriorityLevel must be between 1 and 5, got "
                     \o ToString(cs[i].PriorityLevel), "error")>>
        ELSE <<>>])
    \o
    Flatten([i \in 1..Len(ts) |->
        IF ts[i].Duration < 1
        THEN <<ValidationError("invalid-duration-" \o TemplateString(ts[i].TaskID), "out_of_range",
                 "tasks", ts[i].TaskID, "Duration",
                 "Duration must be at least 1, got " \o ToString(ts[i].Duration),
                 "error")>>
        ELSE <<>>])
    \o
    Flatten([i \in 1..Len(ws) |->
        IF ws[i].MaxLoadPerPhase < 1
        THEN <<ValidationError("invalid-load-" \o TemplateString(ws[i].WorkerID), "out_of_range",
                 "workers", ws[i].WorkerID, "MaxLoadPerPhase",
                 "MaxLoadPerPhase must be at least 1, got "
                     \o ToString(ws[i].MaxLoadPerPhase), "error")>>
        ELSE <<>>])

----------------------------------------------------------------------------
(* Check 5: broken JSON.  The parse error is caught per client.            *)

\* a variant that passes over a client without an identifier
validateBrokenJSON_SkipUnidentified(cs) ==
    Flatten([i \in 1..Len(cs) |->
        IF ~Falsy(cs[i].ClientID) /\ JSONParseThrows(cs[i].AttributesJSON)
        THEN <<ValidationError("broken-json-" \o TemplateString(cs[i].ClientID), "broken_json",
                 "clients", cs[i].ClientID, "AttributesJSON",
                 "Invalid JSON format in AttributesJSON", "error")>>
        ELSE <<>>])

\* a variant without the per-client catch: the first parse failure is
\* reported and ends the walk over the clients
validateBrokenJSON_StopAtFirst(cs) ==
    Flatten([i \in 1..Len(cs) |->
        IF /\ JSONParseThrows(cs[i].AttributesJSON)
           /\ \A j \in 1..(i - 1) : ~JSONParseThrows(cs[j].AttributesJSON)
        THEN <<ValidationError("broken-json-" \o TemplateString(cs[i].ClientID), "broken_json",
                 "clients", cs[i].ClientID, "AttributesJSON",
                 "Invalid JSON format in AttributesJSON", "error")>>
        ELSE <<>>])

validateBrokenJSON(cs) ==
    Flatten([i \in 1..Len(cs) |->
        IF JSONParseThrows(cs[i].AttributesJSON)
        THEN <<ValidationError("broken-json-" \o TemplateString(cs[i].ClientID), "broken_json",
                 "clients", cs[i].ClientID, "AttributesJSON",
                 "Invalid JSON format in AttributesJSON", "error")>>
        ELSE <<>>])

----------------------------------------------------------------------------
(* Check 6: unknown references.  RequestedTaskIDs.forEach raises a         *)
(* TypeError when the field is not an array.                               *)

UnknownReferencesThrows(cs) ==
    \E i \in 1..Len(cs) : ~cs[i].RequestedTaskIDs.isArray

UnknownOfClient(client, taskIds) ==
    LET req == client.RequestedTaskIDs.items
    IN  Flatten([k \in 1..Len(req) |->
            IF req[k] \notin taskIds
            THEN <<ValidationError(
                     "unknown-task-" \o TemplateString(client.ClientID) \o "-" \o req[k],
                     "unknown_reference", "clients", client.ClientID, "RequestedTaskIDs",
                     "Referenced TaskID '" \o req[k] \o "' does not exist", "error")>>
            ELSE <<>>])

\* a variant that walks the clients from the last to the first
validateUnknownReferences_LastFirst(cs, ts) ==
    LET taskIds == {ts[j].TaskID : j \in 1..Len(ts)}
    IN  Flatten([i \in 1..Len(cs) |-> UnknownOfClient(cs[Len(cs) + 1 - i], taskIds)])

validateUnknownReferences(cs, ts) ==
    LET taskIds == {ts[j].TaskID : j \in 1..Len(ts)}
    IN  Flatten([i \in 1..Len(cs) |-> UnknownOfClient(cs[i], taskIds)])

\* a variant of the placeholder that reports that it did not run
validateCircularCoRunGroups_Notice ==
    <<ValidationError("circular-corun-skipped", "circular_corun", "system", "system",
                      "rules", "Co-run groups were not checked: no rules", "info")>>

\* Checks 7 and 12 are placeholders that return no defect
validateCircularCoRunGroups == <<>>
validateConflictingRules == <<>>

----------------------------------------------------------------------------
(* Check 8: overloaded workers.  Reading .length of an AvailableSlots that *)
(* is undefined raises a TypeError.                                        *)

OverloadedWorkersThrows(ws) ==
    \E i \in 1..Len(ws) : ~ws[i].AvailableSlots.isArray

\* a variant that reports an overloaded worker as an error
validateOverloadedWorkers_AsError(ws) ==
    Flatten([i \in 1..Len(ws) |->
        IF Len(ws[i].AvailableSlots.items) < ws[i].MaxLoadPerPhase
        THEN <<ValidationError("overloaded-worker-" \o TemplateString(ws[i].WorkerID), "overloaded_worker",
                 "workers", ws[i].WorkerID, "MaxLoadPerPhase",
                 "MaxLoadPerPhase (" \o ToString(ws[i].MaxLoadPerPhase)
                     \o ") exceeds available slots ("
                     \o ToString(Len(ws[i].AvailableSlots.items)) \o ")", "error")>>
        ELSE <<>>])

\* a variant that also reports a worker with exactly as many entries as its load
validateOverloadedWorkers_AtMost(ws) ==
    Flatten([i \in 1..Len(ws) |->
        IF Len(ws[i].AvailableSlots.items) <= ws[i].MaxLoadPerPhase
        THEN <<ValidationError("overloaded-worker-" \o TemplateString(ws[i].WorkerID), "overloaded_worker",
                 "workers", ws[i].WorkerID, "MaxLoadPerPhase",
                 "MaxLoadPerPhase (" \o ToString(ws[i].MaxLoadPerPhase)
                     \o ") exceeds available slots ("
                     \o ToString(Len(ws[i].AvailableSlots.items)) \o ")", "warning")>>
        ELSE <<>>])

validateOverloadedWorkers(ws) ==
    Flatten([i \in 1..Len(ws) |->
        IF Len(ws[i].AvailableSlots.items) < ws[i].MaxLoadPerPhase
        THEN <<ValidationError("overloaded-worker-" \o TemplateString(ws[i].WorkerID), "overloaded_worker",
                 "workers", ws[i].WorkerID, "MaxLoadPerPhase",
                 "MaxLoadPerPhase (" \o ToString(ws[i].MaxLoadPerPhase)
                     \o ") exceeds available slots ("
                     \o ToString(Len(ws[i].AvailableSlots.items)) \o ")", "warning")>>
        ELSE <<>>])

----------------------------------------------------------------------------
(* Check 9: phase-slot saturation.  phaseCapacity and phaseDemand are      *)
(* objects keyed by the phase; each is described by the additions made to  *)
(* it, in execution order.                                                 *)

\* one addition per entry of AvailableSlots, of the worker's MaxLoadPerPhase
CapacityAdditions(ws) ==
    Flatten([i \in 1..Len(ws) |->
        [k \in 1..Len(ws[i].AvailableSlots.items) |->
            [phase |-> ws[i].AvailableSlots.items[k], amount |-> ws[i].MaxLoadPerPhase]]])

\* one addition per entry of PreferredPhases, of the task's Duration
DemandAdditions(ts) ==
    Flatten([j \in 1..Len(ts) |->
        [k \in 1..Len(ts[j].PreferredPhases.items) |->
            [phase |-> ts[j].PreferredPhases.items[k], amount |-> ts[j].Duration]]])

\* table[phase] after the additions: (table[phase] || 0) + amount, repeated
RECURSIVE PhaseTotal(_, _)
PhaseTotal(additions, phase) ==
    IF Len(additions) = 0 THEN 0
    ELSE LET last == additions[Len(additions)]
             before == PhaseTotal(SubSeq(additions, 1, Len(additions) - 1), phase)
         IN  IF last.phase = phase THEN before + last.amount ELSE before

HasPhase(additions, phase) == \E k \in 1..Len(additions) : additions[k].phase = phase

RECURSIVE SortAscending(_)
SortAscending(S) ==
    IF S = {} THEN <<>>
    ELSE LET least == CHOOSE x \in S : \A y \in S : x <= y
         IN  <<least>> \o SortAscending(S \ {least})

\* the phases in the order they were first added
CreationOrder(additions) ==
    Flatten([k \in 1..Len(additions) |->
        IF \E j \in 1..(k - 1) : additions[j].phase = additions[k].phase
        THEN <<>> ELSE <<additions[k].phase>>])

\* a variant that lists every key in creation order
ObjectKeys_CreationOrder(additions) == CreationOrder(additions)

\* Object.keys: the keys that are array indices (the integers from 0 to
\* 2^32 - 2) in ascending order, then the other keys (negative, fractional
\* and large phases) in creation order
ObjectKeys(additions) ==
    LET created == CreationOrder(additions)
        IsIndex(p) == 0 <= p /\ p < FractionBase
        IsOther(p) == ~IsIndex(p)
    IN  SortAscending({p \in Range(created) : IsIndex(p)}) \o SelectSeq(created, IsOther)

\* parseInt of the key String(phase): the integer itself for an integer (a
\* key is written in plain decimal below 10^21), the integer part for k + 0.5
ParseIntOfKey(phase) ==
    IF NumberIsInteger(phase) THEN phase ELSE phase - FractionBase

PhaseSlotSaturationThrows(ws, ts) ==
    \/ \E i \in 1..Len(ws) : ~ws[i].AvailableSlots.isArray
    \/ \E j \in 1..Len(ts) : ~ts[j].PreferredPhases.isArray

SaturationOfPhase(phase, phaseCapacity, phaseDemand) ==
    LET demand == PhaseTotal(phaseDemand, phase)
        capacity == IF HasPhase(phaseCapacity, phase)
                    THEN PhaseTotal(phaseCapacity, phase) ELSE 0
    IN  IF HasPhase(phaseDemand, phase) /\ demand > capacity
        THEN <<ValidationError("phase-saturation-" \o NumberString(phase), "phase_saturation",
                 "system", "system", "phase_capacity",
                 "Phase " \o NumberString(phase) \o " is oversaturated: demand ("
                     \o ToString(demand) \o ") exceeds capacity ("
                     \o ToString(capacity) \o ")", "warning")>>
        ELSE <<>>

validatePhaseSlotSaturation(ws, ts) ==
    LET phaseCapacity == CapacityAdditions(ws)
        phaseDemand == DemandAdditions(ts)
        keys == ObjectKeys(phaseDemand)
    IN  Flatten([n \in 1..Len(keys) |->
            SaturationOfPhase(ParseIntOfKey(keys[n]), phaseCapacity, phaseDemand)])

----------------------------------------------------------------------------
(* Check 10: skill coverage.                                               *)

SkillCoverageMatrixThrows(ws, ts) ==
    \/ \E i \in 1..Len(ws) : ~ws[i].Skills.isArray
    \/ \E j \in 1..Len(ts) : ~ts[j].RequiredSkills.isArray

SkillCoverageOfTask(task, workerSkills) ==
    LET req == task.RequiredSkills.items
    IN  Flatten([k \in 1..Len(req) |->
            IF req[k] \notin workerSkills
            THEN <<ValidationError("missing-skill-" \o TemplateString(task.TaskID) \o "-" \o req[k],
                     "skill_coverage", "tasks", task.TaskID, "RequiredSkills",
                     "Required skill '" \o req[k] \o "' is not available in any worker",
                     "error")>>
            ELSE <<>>])

\* a variant that collects the skills of all workers but the last
validateSkillCoverageMatrix_SkipLast(ws, ts) ==
    LET workerSkills == UNION {Range(ws[i].Skills.items) : i \in 1..(Len(ws) - 1)}
    IN  Flatten([j \in 1..Len(ts) |-> SkillCoverageOfTask(ts[j], workerSkills)])

validateSkillCoverageMatrix(ws, ts) ==
    LET workerSkills == UNION {Range(ws[i].Skills.items) : i \in 1..Len(ws)}
    IN  Flatten([j \in 1..Len(ts) |-> SkillCoverageOfTask(ts[j], workerSkills)])

----------------------------------------------------------------------------
(* Check 11: max-concurrency feasibility.                                  *)

\* task.RequiredSkills.every(skill => worker.Skills.includes(skill))
HasAllSkills(worker, task) ==
    \A k \in 1..Len(task.RequiredSkills.items) :
        task.RequiredSkills.items[k] \in Range(worker.Skills.items)

\* every raises on a RequiredSkills that is not an array; includes raises on
\* a Skills that is not an array, once every calls it for a first skill
MaxConcurrencyFeasibilityThrows(ws, ts) ==
    \E j \in 1..Len(ts), i \in 1..Len(ws) :
        \/ ~ts[j].RequiredSkills.isArray
        \/ Len(ts[j].RequiredSkills.items) > 0 /\ ~ws[i].Skills.isArray

QualifiedWorkers(ws, task) ==
    Cardinality({i \in 1..Len(ws) : HasAllSkills(ws[i], task)})

\* a variant that compares with >= instead of >
validateMaxConcurrencyFeasibility_AtLeast(ws, ts) ==
    Flatten([j \in 1..Len(ts) |->
        LET qualifiedWorkers == QualifiedWorkers(ws, ts[j])
        IN  IF ts[j].MaxConcurrent >= qualifiedWorkers
            THEN <<ValidationError("infeasible-concurrency-" \o TemplateString(ts[j].TaskID),
                     "max_concurrency", "tasks", ts[j].TaskID, "MaxConcurrent",
                     "MaxConcurrent (" \o ToString(ts[j].MaxConcurrent)
                         \o ") exceeds qualified workers ("
                         \o ToString(qualifiedWorkers) \o ")", "warning")>>
            ELSE <<>>])

\* a variant that counts every worker as qualified
validateMaxConcurrencyFeasibility_AnyWorker(ws, ts) ==
    Flatten([j \in 1..Len(ts) |->
        LET qualifiedWorkers == Len(ws)
        IN  IF ts[j].MaxConcurrent > qualifiedWorkers
            THEN <<ValidationError("infeasible-concurrency-" \o TemplateString(ts[j].TaskID),
                     "max_concurrency", "tasks", ts[j].TaskID, "MaxConcurrent",
                     "MaxConcurrent (" \o ToString(ts[j].MaxConcurrent)
                         \o ") exceeds qualified workers ("
                         \o ToString(qualifiedWorkers) \o ")", "warning")>>
            ELSE <<>>])

validateMaxConcurrencyFeasibility(ws, ts) ==
    Flatten([j \in 1..Len(ts) |->
        LET qualifiedWorkers == QualifiedWorkers(ws, ts[j])
        IN  IF ts[j].MaxConcurrent > qualifiedWorkers
            THEN <<ValidationError("infeasible-concurrency-" \o TemplateString(ts[j].TaskID),
                     "max_concurrency", "tasks", ts[j].TaskID, "MaxConcurrent",
                     "MaxConcurrent (" \o ToString(ts[j].MaxConcurrent)
                         \o ") exceeds qualified workers ("
                         \o ToString(qualifiedWorkers) \o ")", "warning")>>
            ELSE <<>>])

----------------------------------------------------------------------------
(* validateAll: the twelve checks in order, their defects concatenated.    *)
(* An exception in any check leaves validateAll by that exception.         *)

ValidateAllThrows(cs, ws, ts) ==
    \/ UnknownReferencesThrows(cs)
    \/ OverloadedWorkersThrows(ws)
    \/ PhaseSlotSaturationThrows(ws, ts)
    \/ SkillCoverageMatrixThrows(ws, ts)
    \/ MaxConcurrencyFeasibilityThrows(ws, ts)

\* a variant that runs the skill-coverage check before the overload check
validateAll_CoverageFirst(cs, ws, ts, rnd) ==
    validateMissingRequiredColumns(cs, ws, ts, rnd)
    \o validateDuplicateIDs(cs, ws, ts)
    \o validateMalformedLists(ws)
    \o validateOutOfRangeValues(cs, ws, ts)
    \o validateBrokenJSON(cs)
    \o validateUnknownReferences(cs, ts)
    \o validateCircularCoRunGroups
    \o validateSkillCoverageMatrix(ws, ts)
    \o validateOverloadedWorkers(ws)
    \o validatePhaseSlotSaturation(ws, ts)
    \o validateMaxConcurrencyFeasibility(ws, ts)
    \o validateConflictingRules

validateAll(cs, ws, ts, rnd) ==
    validateMissingRequiredColumns(cs, ws, ts, rnd)
    \o validateDuplicateIDs(cs, ws, ts)
    \o validateMalformedLists(ws)
    \o validateOutOfRangeValues(cs, ws, ts)
    \o validateBrokenJSON(cs)
    \o validateUnknownReferences(cs, ts)
    \o validateCircularCoRunGroups
    \o validateOverloadedWorkers(ws)
    \o validatePhaseSlotSaturation(ws, ts)
    \o validateSkillCoverageMatrix(ws, ts)
    \o validateMaxConcurrencyFeasibility(ws, ts)
    \o validateConflictingRules

----------------------------------------------------------------------------
(* The engine as a state machine.  A call record keeps what one            *)
(* validateAll call read and what came of it.                              *)

\* initialState of the store (isLoading plays no part; the priorities are
\* the initial weights, which no action of the model replaces)
initialState ==
    [clients |-> <<>>, workers |-> <<>>, tasks |-> <<>>, rules |-> <<>>,
     validationErrors |-> <<>>, priorities |-> "initial weights", geminiApiKey |-> ""]

CollectionsOf(st) == <<st.clients, st.workers, st.tasks>>

\* no runAiValidation is awaiting; otherwise closure is the state it was
\* rendered with
NoAiValidation == [status |-> "idle", closure |-> initialState]

\* exportData has not run; otherwise outcome says whether it returned at the
\* gate, wrote the files or failed, with the counts it was rendered with
NoExport == [outcome |-> "none", criticalErrors |-> 0, warnings |-> 0, totalErrors |-> 0]

Call(status, cs, ws, ts, errors) ==
    [status |-> status, clients |-> cs, workers |-> ws, tasks |-> ts, errors |-> errors]

NoCall == Call("none", <<>>, <<>>, <<>>, <<>>)

\* new ValidationEngine(): the three collections start empty
Init ==
    /\ clients = <<>>
    /\ workers = <<>>
    /\ tasks = <<>>
    /\ cur = NoCall
    /\ prev = NoCall
    /\ state = initialState
    /\ pending = FALSE
    /\ ai = NoAiValidation
    /\ exported = NoExport

\* the engine is as constructed: no setData and no validateAll yet
Fresh ==
    /\ clients = <<>> /\ workers = <<>> /\ tasks = <<>>
    /\ cur = NoCall /\ prev = NoCall

\* setData(c, w, t)
setData(c, w, t) ==
    /\ clients' = c
    /\ workers' = w
    /\ tasks' = t
    /\ UNCHANGED <<cur, prev>>
    /\ UNCHANGED appVars

\* the first setData on a new engine, its arguments drawn from the given sets
SetData(CS, WS, TS) ==
    /\ Fresh
    /\ \E c \in CS, w \in WS, t \in TS : setData(c, w, t)

\* a variant that empties the clients collection while it reads it
ValidateAll_Draining ==
    /\ IF ValidateAllThrows(clients, workers, tasks)
       THEN cur' = Call("threw", clients, workers, tasks, <<>>)
       ELSE \E rnd \in [1..RandomCalls(clients, workers, tasks) -> RandomValues] :
                cur' = Call("returned", clients, workers, tasks,
                            validateAll(clients, workers, tasks, rnd))
    /\ prev' = cur
    /\ clients' = <<>>
    /\ UNCHANGED <<workers, tasks>>
    /\ UNCHANGED appVars

\* a variant whose errors array is a field of the engine: a call appends
\* its defects to those of the earlier calls
ValidateAll_Accumulating ==
    /\ IF ValidateAllThrows(clients, workers, tasks)
       THEN cur' = Call("threw", clients, workers, tasks, <<>>)
       ELSE \E rnd \in [1..RandomCalls(clients, workers, tasks) -> RandomValues] :
                cur' = Call("returned", clients, workers, tasks,
                            cur.errors \o validateAll(clients, workers, tasks, rnd))
    /\ prev' = cur
    /\ UNCHANGED <<clients, workers, tasks>>
    /\ UNCHANGED appVars

\* validateAll() on the engine's current collections
ValidateAll ==
    /\ IF ValidateAllThrows(clients, workers, tasks)
       THEN cur' = Call("threw", clients, workers, tasks, <<>>)
       ELSE \E rnd \in [1..RandomCalls(clients, workers, tasks) -> RandomValues] :
                cur' = Call("returned", clients, workers, tasks,
                            validateAll(clients, workers, tasks, rnd))
    /\ prev' = cur
    /\ UNCHANGED <<clients, workers, tasks>>
    /\ UNCHANGED appVars

----------------------------------------------------------------------------
(* Inputs with malformed records: empty identifiers and names, list fields *)
(* that are not arrays, an attributes blob that is not JSON.               *)

MixedClients ==
    {Client("C1", "Acme", 3, Arr(<<"T1">>), "{}"),
     Client("", "Acme", 3, Arr(<<>>), "{}"),
     Client("", "", 3, Arr(<<>>), "{}"),
     Client("C2", "Bolt", 3, NotArray, "{}"),
     Client("C3", "Core", 3, Arr(<<>>), "{oops")}

MixedWorkers ==
    {Worker("W1", "Ann", Arr(<<"a">>), Arr(<<1>>), 1),
     Worker("W2", "Bob", Arr(<<"a">>), NotArray, 1),
     Worker("W3", "Cy", NotArray, Arr(<<1>>), 1)}

MixedTasks ==
    {Task("T1", "Build", 1, Arr(<<"a">>), Arr(<<1>>), 1),
     Task("T2", "Test", 1, Arr(<<"a">>), NotArray, 1),
     Task("T3", "Ship", 1, NotArray, Arr(<<1>>), 1)}

Next ==
    \/ SetData(SeqsUpTo(MixedClients, MaxRecords), SeqsUpTo(MixedWorkers, MaxRecords),
               SeqsUpTo(MixedTasks, MaxRecords))
    \/ ValidateAll

Spec == Init /\ [][Next]_vars

\* the last two validateAll calls both returned and read the same data
TwoRunsOnSameData ==
    /\ cur.status = "returned" /\ prev.status = "returned"
    /\ cur.clients = prev.clients /\ cur.workers = prev.workers /\ cur.tasks = prev.tasks

\* C1: two validateAll calls on the same unmodified data return identical
\* defect sequences: same length, same order, every field of every defect
\* equal, the id included.
C1_Idempotent == TwoRunsOnSameData => cur.errors = prev.errors

\* C2: validateAll never raises, whatever list field is missing or not a
\* sequence and whatever AttributesJSON holds: every call returns a defect list.
C2_NeverRaises == cur.status # "threw"

----------------------------------------------------------------------------
(* Inputs whose records differ only in their identifiers, the same         *)
(* identifiers being used in all three collections.                        *)

DupIds == {"A", "B"}

DupClients == {Client(id, "Acme", 3, Arr(<<>>), "{}") : id \in DupIds}
DupWorkers == {Worker(id, "Ann", Arr(<<>>), Arr(<<1>>), 1) : id \in DupIds}
DupTasks == {Task(id, "Build", 1, Arr(<<>>), Arr(<<>>), 0) : id \in DupIds}

NextDup ==
    \/ SetData(SeqsUpTo(DupClients, MaxDup), SeqsUpTo(DupWorkers, MaxDup),
               SeqsUpTo(DupTasks, MaxDup))
    \/ ValidateAll

SpecDup == Init /\ [][NextDup]_vars

\* C3: when the clients, workers and tasks collections are all empty,
\* validateAll returns an empty defect sequence.
C3_EmptyInputNoDefects ==
    (cur.status # "none" /\ cur.clients = <<>> /\ cur.workers = <<>> /\ cur.tasks = <<>>)
        => (cur.status = "returned" /\ cur.errors = <<>>)

C3_Witness ==
    /\ cur.status = "returned"
    /\ cur.clients = <<>> /\ cur.workers = <<>> /\ cur.tasks = <<>>

\* the number of records of a collection that carry the identifier
Occurrences(ids, id) == Cardinality({i \in 1..Len(ids) : ids[i] = id})

\* the number of duplicate_id defects reported for a collection and identifier
DuplicateDefects(errors, entity, id) ==
    Cardinality({n \in 1..Len(errors) :
        /\ errors[n].type = "duplicate_id"
        /\ errors[n].entity = entity
        /\ errors[n].entityId = id})

\* k occurrences of an identifier in one collection give k-1 defects
DuplicatesCounted(errors, entity, ids) ==
    /\ \A id \in DupIds :
           DuplicateDefects(errors, entity, id) =
               (IF Occurrences(ids, id) = 0 THEN 0 ELSE Occurrences(ids, id) - 1)
    /\ Cardinality({n \in 1..Len(errors) :
           errors[n].type = "duplicate_id" /\ errors[n].entity = entity})
         = Len(ids) - Cardinality(Range(ids))

\* C4: within each collection independently, an identifier that occurs k
\* times (k >= 1) produces exactly k-1 duplicate_id defects for that
\* collection and identifier; the same identifier in two different
\* collections is not a duplicate.
C4_DuplicateIds ==
    cur.status = "returned" =>
        /\ DuplicatesCounted(cur.errors, "clients", ClientIDsOf(cur.clients))
        /\ DuplicatesCounted(cur.errors, "workers", WorkerIDsOf(cur.workers))
        /\ DuplicatesCounted(cur.errors, "tasks", TaskIDsOf(cur.tasks))
        /\ \A n \in 1..Len(cur.errors) :
               cur.errors[n].type = "duplicate_id" =>
                   cur.errors[n].entity \in {"clients", "workers", "tasks"}

\* an identifier three times among the clients, once among the workers and
\* once among the tasks: two defects, both for the clients
C4_Witness ==
    /\ cur.status = "returned"
    /\ Occurrences(ClientIDsOf(cur.clients), "A") = 3
    /\ Occurrences(WorkerIDsOf(cur.workers), "A") = 1
    /\ Occurrences(TaskIDsOf(cur.tasks), "A") = 1
    /\ DuplicateDefects(cur.errors, "clients", "A") = 2
    /\ DuplicateDefects(cur.errors, "workers", "A") = 0

----------------------------------------------------------------------------
(* Inputs for the reference check: clients that request tasks, and tasks.  *)

RefTaskIds == {"T1", "T2"}

RefClients ==
    {Client(id, "Acme", 3, Arr(req), "{}") :
        id \in {"C1", "C2"}, req \in SeqsUpTo(RefTaskIds, MaxList)}

RefTasks == {Task(id, "Build", 1, Arr(<<>>), Arr(<<>>), 0) : id \in RefTaskIds}

NextRef ==
    \/ SetData(SeqsUpTo(RefClients, MaxRecords), {<<>>}, SeqsUpTo(RefTasks, MaxRecords))
    \/ ValidateAll

SpecRef == Init /\ [][NextRef]_vars

\* the number of unknown_reference defects that concern the client
\* identifier and name the task identifier
UnknownReferenceDefects(errors, clientId, taskId) ==
    Cardinality({n \in 1..Len(errors) :
        /\ errors[n].type = "unknown_reference"
        /\ errors[n].entity = "clients"
        /\ errors[n].entityId = clientId
        /\ errors[n].message = "Referenced TaskID '" \o taskId \o "' does not exist"})

\* the number of client records with the identifier that request the task
ClientsRequesting(cs, clientId, taskId) ==
    Cardinality({i \in 1..Len(cs) :
        cs[i].ClientID = clientId /\ taskId \in Range(cs[i].RequestedTaskIDs.items)})

\* C5: for every client whose RequestedTaskIDs contains an identifier that
\* is not the TaskID of any task, the result contains exactly one
\* unknown_reference defect per absent identifier for that client;
\* identifiers that match a task produce none.  (Defects tell clients apart
\* by ClientID, so clients are counted per ClientID.)
C5_UnknownReferences ==
    cur.status = "returned" =>
        \A clientId \in {"C1", "C2"}, taskId \in RefTaskIds :
            UnknownReferenceDefects(cur.errors, clientId, taskId) =
                (IF taskId \in Range(TaskIDsOf(cur.tasks))
                 THEN 0
                 ELSE ClientsRequesting(cur.clients, clientId, taskId))

----------------------------------------------------------------------------
(* Inputs for the saturation check: workers with slots and a load, tasks   *)
(* with preferred phases and a duration, out-of-range values included.     *)

Phases == {1, 2}

PhaseWorkers ==
    {Worker("W1", "Ann", Arr(<<>>), Arr(slots), load) :
        slots \in SeqsUpTo(Phases, MaxList), load \in {-1, 2}}

PhaseTasks ==
    {Task("T1", "Build", dur, Arr(<<>>), Arr(phases), 0) :
        phases \in SeqsUpTo(Phases, MaxList), dur \in {0, 2}}

NextPhase ==
    \/ SetData({<<>>}, SeqsUpTo(PhaseWorkers, MaxRecords), SeqsUpTo(PhaseTasks, MaxRecords))
    \/ ValidateAll

SpecPhase == Init /\ [][NextPhase]_vars

RECURSIVE SumSeq(_)
SumSeq(s) == IF Len(s) = 0 THEN 0 ELSE Head(s) + SumSeq(Tail(s))

\* the number of phase_saturation defects whose id names the phase
SaturationDefects(errors, phase) ==
    Cardinality({n \in 1..Len(errors) :
        /\ errors[n].type = "phase_saturation"
        /\ errors[n].id = "phase-saturation-" \o ToString(phase)})

\* demand and capacity of a phase, every entry of a list counted
DemandPerEntry(ts, phase) ==
    SumSeq([j \in 1..Len(ts) |->
        ts[j].Duration
            * Cardinality({k \in 1..Len(ts[j].PreferredPhases.items) :
                  ts[j].PreferredPhases.items[k] = phase})])

CapacityPerEntry(ws, phase) ==
    SumSeq([i \in 1..Len(ws) |->
        ws[i].MaxLoadPerPhase
            * Cardinality({k \in 1..Len(ws[i].AvailableSlots.items) :
                  ws[i].AvailableSlots.items[k] = phase})])

SomeTaskPrefers(ts, phase) ==
    \E j \in 1..Len(ts) : phase \in Range(ts[j].PreferredPhases.items)

\* C6: for every phase with positive total demand the result contains
\* exactly one phase_saturation defect (entity and entityId 'system') when
\* its demand exceeds its capacity and none when it does not; a phase that
\* no task prefers, or whose total demand is not positive, produces none,
\* even if workers offer capacity there.  (Demand and capacity are taken as
\* the engine totals them, so that only the conditions of this claim decide.)
C6_PhaseSaturation ==
    cur.status = "returned" =>
        /\ \A phase \in Phases :
               SaturationDefects(cur.errors, phase) =
                   (IF /\ SomeTaskPrefers(cur.tasks, phase)
                       /\ DemandPerEntry(cur.tasks, phase) > 0
                       /\ DemandPerEntry(cur.tasks, phase)
                              > CapacityPerEntry(cur.workers, phase)
                    THEN 1 ELSE 0)
        /\ \A n \in 1..Len(cur.errors) :
               cur.errors[n].type = "phase_saturation" =>
                   cur.errors[n].entity = "system" /\ cur.errors[n].entityId = "system"

\* demand and capacity of a phase, every task and worker counted once
DemandPerTask(ts, phase) ==
    SumSeq([j \in 1..Len(ts) |->
        IF phase \in Range(ts[j].PreferredPhases.items) THEN ts[j].Duration ELSE 0])

CapacityPerWorker(ws, phase) ==
    SumSeq([i \in 1..Len(ws) |->
        IF phase \in Range(ws[i].AvailableSlots.items) THEN ws[i].MaxLoadPerPhase ELSE 0])

\* C7: the capacity of a phase is the sum of MaxLoadPerPhase over the
\* workers whose AvailableSlots contains it, each worker once; the demand is
\* the sum of Duration over the tasks whose PreferredPhases contains it, each
\* task once; a phase_saturation defect names these sums.
C7_SaturationSums ==
    cur.status = "returned" =>
        \A n \in 1..Len(cur.errors) :
            cur.errors[n].type = "phase_saturation" =>
                \E phase \in Phases :
                    /\ cur.errors[n].id = "phase-saturation-" \o ToString(phase)
                    /\ cur.errors[n].message =
                           "Phase " \o ToString(phase) \o " is oversaturated: demand ("
                           \o ToString(DemandPerTask(cur.tasks, phase))
                           \o ") exceeds capacity ("
                           \o ToString(CapacityPerWorker(cur.workers, phase)) \o ")"

----------------------------------------------------------------------------
(* Inputs for the skill checks: workers that offer skills, tasks that      *)
(* require skills and allow a number of concurrent instances.              *)

Skills == {"a", "b"}

SkillWorkers ==
    {Worker("W1", "Ann", Arr(skills), Arr(<<1>>), 1) :
        skills \in {<<>>, <<"a">>, <<"b">>, <<"a", "b">>}}

SkillTasks ==
    {Task(id, "Build", 1, Arr(skills), Arr(<<>>), conc) :
        id \in {"T1", "T2"},
        skills \in {<<>>, <<"a">>, <<"a", "b">>, <<"a", "a">>},
        conc \in {1, 3}}

\* the worker and task collections that hold at most MaxStaff records together
StaffedInputs ==
    UNION {[1..size[1] -> SkillWorkers] \X [1..size[2] -> SkillTasks] :
               size \in {nm \in (0..MaxStaff) \X (0..MaxStaff) : nm[1] + nm[2] <= MaxStaff}}

\* the first setData on a new engine, with workers and tasks drawn together
SetStaff ==
    /\ Fresh
    /\ \E wt \in StaffedInputs : setData(<<>>, wt[1], wt[2])

NextSkill == SetStaff \/ ValidateAll

SpecSkill == Init /\ [][NextSkill]_vars

\* the number of skill_coverage defects that concern the task identifier
\* and name the skill
SkillCoverageDefects(errors, taskId, skill) ==
    Cardinality({n \in 1..Len(errors) :
        /\ errors[n].type = "skill_coverage"
        /\ errors[n].entity = "tasks"
        /\ errors[n].entityId = taskId
        /\ errors[n].message =
               "Required skill '" \o skill \o "' is not available in any worker"})

\* the number of task records with the identifier that require the skill
TasksRequiring(ts, taskId, skill) ==
    Cardinality({j \in 1..Len(ts) :
        ts[j].TaskID = taskId /\ skill \in Range(ts[j].RequiredSkills.items)})

SomeWorkerLists(ws, skill) ==
    \E i \in 1..Len(ws) : skill \in Range(ws[i].Skills.items)

\* C8: for every task and every skill in its RequiredSkills, the result
\* contains exactly one skill_coverage defect for that (task, skill) pair
\* when no worker lists the skill, and none when some worker lists it.
\* (Defects tell tasks apart by TaskID, so tasks are counted per TaskID.)
C8_SkillCoverage ==
    cur.status = "returned" =>
        \A taskId \in {"T1", "T2"}, skill \in Skills :
            SkillCoverageDefects(cur.errors, taskId, skill) =
                (IF SomeWorkerLists(cur.workers, skill)
                 THEN 0
                 ELSE TasksRequiring(cur.tasks, taskId, skill))

\* q: the worker records whose Skills contains every required skill
Qualified(ws, task) ==
    Cardinality({i \in 1..Len(ws) :
        Range(task.RequiredSkills.items) \subseteq Range(ws[i].Skills.items)})

IsMaxConcurrency(e) == e.type = "max_concurrency"

\* the tasks, in input order, that allow more instances than q
Infeasible(ws, ts) ==
    LET Over(task) == task.MaxConcurrent > Qualified(ws, task)
    IN  SelectSeq(ts, Over)

\* C10: for each task, with q the number of worker records whose Skills
\* contains every skill in RequiredSkills, the result contains exactly one
\* max_concurrency warning for the task, citing q, when MaxConcurrent > q,
\* and none when MaxConcurrent <= q; every worker qualifies for a task with
\* empty RequiredSkills.
C10_MaxConcurrency ==
    cur.status = "returned" =>
        LET warnings == SelectSeq(cur.errors, IsMaxConcurrency)
            over == Infeasible(cur.workers, cur.tasks)
        IN  /\ Len(warnings) = Len(over)
            /\ \A n \in 1..Len(warnings) :
                   /\ warnings[n].entity = "tasks"
                   /\ warnings[n].entityId = over[n].TaskID
                   /\ warnings[n].severity = "warning"
                   /\ warnings[n].message =
                          "MaxConcurrent (" \o ToString(over[n].MaxConcurrent)
                          \o ") exceeds qualified workers ("
                          \o ToString(Qualified(cur.workers, over[n])) \o ")"

\* a task that allows 3 instances with one qualified worker among two is
\* warned about, citing 1; a task without required skills that allows 1 is not
C10_Witness ==
    /\ cur.status = "returned"
    /\ Len(cur.workers) = 2
    /\ \E j \in 1..Len(cur.tasks) :
           /\ cur.tasks[j].TaskID = "T1"
           /\ cur.tasks[j].MaxConcurrent = 3
           /\ cur.tasks[j].RequiredSkills.items = <<"a", "b">>
           /\ Qualified(cur.workers, cur.tasks[j]) = 1
    /\ \E n \in 1..Len(cur.errors) :
           /\ cur.errors[n].type = "max_concurrency"
           /\ cur.errors[n].entityId = "T1"
           /\ cur.errors[n].message = "MaxConcurrent (3) exceeds qualified workers (1)"

----------------------------------------------------------------------------
(* An engine that is given new data after a call: setData again, with one  *)
(* more worker than before and everything else as it was.                  *)

GrowWorkers ==
    {Worker("W1", "Ann", Arr(skills), Arr(<<1>>), 1) : skills \in {<<>>, <<"a">>, <<"b">>}}

GrowTasks ==
    {Task("T1", "Build", 1, Arr(<<"a">>), Arr(<<>>), 1),
     Task("T2", "Test", 1, Arr(<<"a", "b">>), Arr(<<>>), 1),
     Task("T3", "Ship", 1, Arr(<<"b">>), Arr(<<>>), 1)}

\* setData(clients, workers with one worker added, tasks)
AddWorker ==
    /\ Len(workers) <= MaxRecords
    /\ \E w \in GrowWorkers, i \in 1..(Len(workers) + 1) :
           setData(clients, InsertAt(workers, i, w), tasks)

NextGrow ==
    \/ SetData({<<>>}, SeqsUpTo(GrowWorkers, MaxRecords), SeqsUpTo(GrowTasks, MaxRecords))
    \/ AddWorker
    \/ ValidateAll

SpecGrow == Init /\ [][NextGrow]_vars

\* the result holds a skill_coverage defect that names the skill
CoverageDefectFor(errors, skill) ==
    \E n \in 1..Len(errors) :
        /\ errors[n].type = "skill_coverage"
        /\ errors[n].message =
               "Required skill '" \o skill \o "' is not available in any worker"

\* ws is before with one worker added, and that worker lists the skill
AddedWorkerWith(before, ws, skill) ==
    \E i \in 1..Len(ws) :
        /\ skill \in Range(ws[i].Skills.items)
        /\ SubSeq(ws, 1, i - 1) \o SubSeq(ws, i + 1, Len(ws)) = before

\* the last two calls returned, and between them the data changed only by
\* a worker that lists the skill being added
WorkerAddedBetweenCalls(skill) ==
    /\ prev.status = "returned" /\ cur.status = "returned"
    /\ cur.clients = prev.clients /\ cur.tasks = prev.tasks
    /\ AddedWorkerWith(prev.workers, cur.workers, skill)

\* C9: if a result contains a skill_coverage defect for skill s and the
\* workers are then changed only by adding a worker whose Skills contains s,
\* the next result contains no skill_coverage defect for s on any task.
C9_AddedWorkerCovers ==
    \A skill \in Skills :
        (WorkerAddedBetweenCalls(skill) /\ CoverageDefectFor(prev.errors, skill))
            => ~CoverageDefectFor(cur.errors, skill)

\* two tasks lacked skill "a", a worker with "a" was added, and another
\* skill is still reported
C9_Witness ==
    /\ WorkerAddedBetweenCalls("a")
    /\ Len(cur.tasks) = 2
    /\ \A j \in 1..Len(cur.tasks) : "a" \in Range(cur.tasks[j].RequiredSkills.items)
    /\ CoverageDefectFor(prev.errors, "a")
    /\ CoverageDefectFor(cur.errors, "b")

----------------------------------------------------------------------------
(* Inputs for the range check: scalars at, inside and outside the bounds.  *)
(* Every scalar the parser or the grid editor stores is an integer.        *)

RangeClientIds == {"C1", "C2"}
RangePriorities == {0, 1, 5, 6}
RangeAmounts == {0, 1}

RangeClients ==
    {Client(id, "Acme", p, Arr(<<>>), "{}") : id \in RangeClientIds, p \in RangePriorities}

RangeWorkers ==
    {Worker("W1", "Ann", Arr(<<>>), Arr(<<1>>), load) : load \in RangeAmounts}

RangeTasks ==
    {Task("T1", "Build", dur, Arr(<<>>), Arr(<<>>), 0) : dur \in RangeAmounts}

NextRange ==
    \/ SetData(SeqsUpTo(RangeClients, MaxRecords), SeqsUpTo(RangeWorkers, MaxRecords),
               SeqsUpTo(RangeTasks, MaxRecords))
    \/ ValidateAll

SpecRange == Init /\ [][NextRange]_vars

\* the number of out_of_range defects for a collection, identifier and field
OutOfRangeDefects(errors, entity, id, field) ==
    Cardinality({n \in 1..Len(errors) :
        /\ errors[n].type = "out_of_range"
        /\ errors[n].entity = entity
        /\ errors[n].entityId = id
        /\ errors[n].field = field})

\* C11: each client yields one out_of_range defect on field PriorityLevel
\* if its PriorityLevel is outside 1..5 (e.g. 0 or 6) and none if it is 1..5;
\* each task yields one on Duration iff Duration < 1; each worker yields one
\* on MaxLoadPerPhase iff MaxLoadPerPhase < 1; no other out_of_range defect
\* is produced.  (Defects tell records apart by identifier, so records are
\* counted per identifier.)
C11_OutOfRange ==
    cur.status = "returned" =>
        /\ \A id \in RangeClientIds :
               OutOfRangeDefects(cur.errors, "clients", id, "PriorityLevel") =
                   Cardinality({i \in 1..Len(cur.clients) :
                       /\ cur.clients[i].ClientID = id
                       /\ cur.clients[i].PriorityLevel \notin 1..5})
        /\ OutOfRangeDefects(cur.errors, "tasks", "T1", "Duration") =
               Cardinality({j \in 1..Len(cur.tasks) : cur.tasks[j].Duration < 1})
        /\ OutOfRangeDefects(cur.errors, "workers", "W1", "MaxLoadPerPhase") =
               Cardinality({i \in 1..Len(cur.workers) : cur.workers[i].MaxLoadPerPhase < 1})
        /\ Cardinality({n \in 1..Len(cur.errors) : cur.errors[n].type = "out_of_range"})
             = Cardinality({i \in 1..Len(cur.clients) :
                                cur.clients[i].PriorityLevel \notin 1..5})
               + Cardinality({j \in 1..Len(cur.tasks) : cur.tasks[j].Duration < 1})
               + Cardinality({i \in 1..Len(cur.workers) :
                                  cur.workers[i].MaxLoadPerPhase < 1})

\* a client at priority 6 is flagged and one at priority 5 is not; a task of
\* duration 0 and a worker of load 0 are flagged
C11_Witness ==
    /\ cur.status = "returned"
    /\ Len(cur.clients) = 2
    /\ cur.clients[1].ClientID = "C1" /\ cur.clients[1].PriorityLevel = 6
    /\ cur.clients[2].ClientID = "C2" /\ cur.clients[2].PriorityLevel = 5
    /\ \E j \in 1..Len(cur.tasks) : cur.tasks[j].Duration = 0
    /\ \E i \in 1..Len(cur.workers) : cur.workers[i].MaxLoadPerPhase = 0
    /\ OutOfRangeDefects(cur.errors, "clients", "C1", "PriorityLevel") = 1
    /\ OutOfRangeDefects(cur.errors, "clients", "C2", "PriorityLevel") = 0
    /\ OutOfRangeDefects(cur.errors, "tasks", "T1", "Duration") >= 1

\* a step that records a validateAll call
CallRecorded == cur' # cur \/ prev' # prev

\* C12: validateAll does not modify its inputs: after any validateAll call
\* the clients, workers and tasks collections passed to setData, and every
\* field of every record in them, are equal to their values before the call.
C12_InputsUnmodified ==
    [][CallRecorded => (clients' = clients /\ workers' = workers /\ tasks' = tasks)]_vars

\* a call that returned defects on three collections that all hold records,
\* which are still what the call read
C12_Witness ==
    /\ cur.status = "returned"
    /\ cur.errors # <<>>
    /\ Len(clients) > 0 /\ Len(workers) > 0 /\ Len(tasks) > 0
    /\ clients = cur.clients /\ workers = cur.workers /\ tasks = cur.tasks

----------------------------------------------------------------------------
(* Inputs that draw defects from every check at once: a record of each     *)
(* collection that is sound next to one that several checks flag.          *)

OrderClients ==
    {Client("C1", "Acme", 3, Arr(<<"T1">>), "{}"),
     Client("", "Anon", 0, Arr(<<"T9">>), "{oops")}

OrderWorkers ==
    {Worker("W1", "Ann", Arr(<<"a">>), Arr(<<1>>), 1),
     Worker("W1", "Ann", Arr(<<"a">>), Arr(<<0>>), 2)}

OrderTasks ==
    {Task("T1", "Build", 1, Arr(<<"a">>), Arr(<<1>>), 1),
     Task("T1", "Build", 0, Arr(<<"b">>), Arr(<<0>>), 3)}

NextOrder ==
    \/ SetData(SeqsUpTo(OrderClients, MaxRecords), SeqsUpTo(OrderWorkers, MaxRecords),
               SeqsUpTo(OrderTasks, MaxRecords))
    \/ (cur = NoCall /\ ValidateAll)

SpecOrder == Init /\ [][NextOrder]_vars

\* the defect kinds in the order of the checks that produce them
KindOrder ==
    <<"missing_required_field", "duplicate_id", "malformed_list", "out_of_range",
      "broken_json", "unknown_reference", "overloaded_worker", "phase_saturation",
      "skill_coverage", "max_concurrency">>

\* the place of a kind in that order
KindRank(type) == CHOOSE r \in 1..Len(KindOrder) : KindOrder[r] = type

KindsOf(errors) == {errors[n].type : n \in 1..Len(errors)}

\* C13: the result of validateAll is the concatenation of the checks in the
\* fixed order required-field presence, duplicate ids, malformed lists,
\* out-of-range, broken JSON, unknown references, overloaded workers, phase
\* saturation, skill coverage, max concurrency: every defect is of one of
\* these kinds and no defect of a later kind precedes a defect of an earlier
\* kind.
C13_CheckOrder ==
    cur.status = "returned" =>
        /\ KindsOf(cur.errors) \subseteq Range(KindOrder)
        /\ \A n \in 1..Len(cur.errors), m \in 1..Len(cur.errors) :
               n < m => KindRank(cur.errors[n].type) <= KindRank(cur.errors[m].type)

\* a result that holds all ten kinds and is sorted neither by severity (a
\* warning precedes an error) nor by entity (a client defect lies between
\* two worker defects)
C13_Witness ==
    /\ cur.status = "returned"
    /\ KindsOf(cur.errors) = Range(KindOrder)
    /\ \E n \in 1..Len(cur.errors), m \in 1..Len(cur.errors) :
           n < m /\ cur.errors[n].severity = "warning" /\ cur.errors[m].severity = "error"
    /\ \E n \in 1..Len(cur.errors), m \in 1..Len(cur.errors), k \in 1..Len(cur.errors) :
           /\ n < m /\ m < k
           /\ cur.errors[n].entity = "workers"
           /\ cur.errors[m].entity = "clients"
           /\ cur.errors[k].entity = "workers"

\* the severity fixed for each kind
SeverityOfKind(type) ==
    IF type \in {"overloaded_worker", "phase_saturation", "max_concurrency"}
    THEN "warning" ELSE "error"

\* C14: in every validateAll result each defect's severity is the one fixed
\* for its kind: missing_required_field, duplicate_id, malformed_list,
\* out_of_range, broken_json, unknown_reference and skill_coverage are
\* 'error'; overloaded_worker, phase_saturation and max_concurrency are
\* 'warning'; and no defect of kind circular_corun or conflicting_rules is
\* ever produced.
C14_SeverityPerKind ==
    cur.status = "returned" =>
        \A n \in 1..Len(cur.errors) :
            /\ cur.errors[n].type \in Range(KindOrder)
            /\ cur.errors[n].type \notin {"circular_corun", "conflicting_rules"}
            /\ cur.errors[n].severity = SeverityOfKind(cur.errors[n].type)

\* a result with the three warning kinds and the seven error kinds
C14_Witness ==
    /\ cur.status = "returned"
    /\ \A r \in 1..Len(KindOrder) :
           \E n \in 1..Len(cur.errors) :
               /\ cur.errors[n].type = KindOrder[r]
               /\ cur.errors[n].severity = SeverityOfKind(KindOrder[r])
    /\ {cur.errors[n].severity : n \in 1..Len(cur.errors)} = {"error", "warning"}

----------------------------------------------------------------------------
(* The application around the engine: the store (dataReducer), the effect  *)
(* and the buttons of ValidationPanel, FileUpload, the grid editor and     *)
(* exportData.  An event handler runs when no effect is due: a due effect  *)
(* runs before the next event is handled.                                  *)

\* action.payload.data of an UPDATE_* action: one edited field
Edit(field, value) == [field |-> field, value |-> value]

\* { ...record, ...data }
Merge(record, data) == [record EXCEPT ![data.field] = data.value]

\* a variant whose UPDATE_CLIENT merges the data into the first client only
\* and discards the stored defects
dataReducer_FirstMatch(st, action) ==
    CASE action.type = "SET_CLIENTS" -> [st EXCEPT !.clients = action.payload]
      [] action.type = "SET_WORKERS" -> [st EXCEPT !.workers = action.payload]
      [] action.type = "SET_TASKS" -> [st EXCEPT !.tasks = action.payload]
      [] action.type = "SET_VALIDATION_ERRORS" ->
            [st EXCEPT !.validationErrors = action.payload]
      [] action.type = "SET_GEMINI_API_KEY" -> [st EXCEPT !.geminiApiKey = action.payload]
      [] action.type = "UPDATE_CLIENT" ->
            [st EXCEPT !.clients = [i \in 1..Len(st.clients) |->
                IF i = 1 /\ st.clients[i].ClientID = action.payload.id
                THEN Merge(st.clients[i], action.payload.data) ELSE st.clients[i]],
                       !.validationErrors = <<>>]
      [] action.type = "UPDATE_WORKER" ->
            [st EXCEPT !.workers = [i \in 1..Len(st.workers) |->
                IF st.workers[i].WorkerID = action.payload.id
                THEN Merge(st.workers[i], action.payload.data) ELSE st.workers[i]]]
      [] action.type = "UPDATE_TASK" ->
            [st EXCEPT !.tasks = [i \in 1..Len(st.tasks) |->
                IF st.tasks[i].TaskID = action.payload.id
                THEN Merge(st.tasks[i], action.payload.data) ELSE st.tasks[i]]]
      [] OTHER -> st

dataReducer(st, action) ==
    CASE action.type = "SET_CLIENTS" -> [st EXCEPT !.clients = action.payload]
      [] action.type = "SET_WORKERS" -> [st EXCEPT !.workers = action.payload]
      [] action.type = "SET_TASKS" -> [st EXCEPT !.tasks = action.payload]
      [] action.type = "SET_VALIDATION_ERRORS" ->
            [st EXCEPT !.validationErrors = action.payload]
      [] action.type = "SET_GEMINI_API_KEY" -> [st EXCEPT !.geminiApiKey = action.payload]
      [] action.type = "UPDATE_CLIENT" ->
            [st EXCEPT !.clients = [i \in 1..Len(st.clients) |->
                IF st.clients[i].ClientID = action.payload.id
                THEN Merge(st.clients[i], action.payload.data) ELSE st.clients[i]]]
      [] action.type = "UPDATE_WORKER" ->
            [st EXCEPT !.workers = [i \in 1..Len(st.workers) |->
                IF st.workers[i].WorkerID = action.payload.id
                THEN Merge(st.workers[i], action.payload.data) ELSE st.workers[i]]]
      [] action.type = "UPDATE_TASK" ->
            [st EXCEPT !.tasks = [i \in 1..Len(st.tasks) |->
                IF st.tasks[i].TaskID = action.payload.id
                THEN Merge(st.tasks[i], action.payload.data) ELSE st.tasks[i]]]
      [] OTHER -> st

\* the actions that put a new array in state.clients, state.workers or
\* state.tasks, which are the dependencies of the effect
ReplacesCollection(action) ==
    action.type \in {"SET_CLIENTS", "SET_WORKERS", "SET_TASKS",
                     "UPDATE_CLIENT", "UPDATE_WORKER", "UPDATE_TASK"}

\* dispatch(action) from an event handler that does nothing else
Dispatch(action) ==
    /\ ~pending
    /\ state' = dataReducer(state, action)
    /\ pending' = ReplacesCollection(action)
    /\ UNCHANGED <<clients, workers, tasks, cur, prev, ai, exported>>

\* runValidation: a new engine, which has no earlier call, is given the
\* collections of the store and its result is stored; an exception of
\* validateAll is caught and nothing is stored
runValidation ==
    /\ clients' = state.clients
    /\ workers' = state.workers
    /\ tasks' = state.tasks
    /\ prev' = NoCall
    /\ IF ValidateAllThrows(state.clients, state.workers, state.tasks)
       THEN /\ cur' = Call("threw", state.clients, state.workers, state.tasks, <<>>)
            /\ UNCHANGED state
       ELSE \E rnd \in [1..RandomCalls(state.clients, state.workers, state.tasks)
                            -> RandomValues] :
                LET errors == validateAll(state.clients, state.workers, state.tasks, rnd)
                IN  /\ cur' = Call("returned", state.clients, state.workers,
                                   state.tasks, errors)
                    /\ state' = dataReducer(state,
                                    [type |-> "SET_VALIDATION_ERRORS", payload |-> errors])

\* useEffect on [state.clients, state.workers, state.tasks]: runValidation,
\* unless all three collections are empty
ValidationEffect ==
    /\ pending
    /\ pending' = FALSE
    /\ IF Len(state.clients) > 0 \/ Len(state.workers) > 0 \/ Len(state.tasks) > 0
       THEN runValidation
       ELSE UNCHANGED <<clients, workers, tasks, cur, prev, state>>
    /\ UNCHANGED <<ai, exported>>

\* the Run Validation button
RunValidationClicked ==
    /\ ~pending
    /\ runValidation
    /\ UNCHANGED <<pending, ai, exported>>

\* FileUpload.onDrop of one file: the converted rows replace a collection
UploadClients(payloads) ==
    \E payload \in payloads : Dispatch([type |-> "SET_CLIENTS", payload |-> payload])

UploadWorkers(payloads) ==
    \E payload \in payloads : Dispatch([type |-> "SET_WORKERS", payload |-> payload])

UploadTasks(payloads) ==
    \E payload \in payloads : Dispatch([type |-> "SET_TASKS", payload |-> payload])

\* DataGrid.saveEdit of a numeric cell: parseInt(editValue) || 0
saveEdit(entity, ids, field, values) ==
    \E id \in ids, value \in values :
        Dispatch([type |-> IF entity = "clients" THEN "UPDATE_CLIENT"
                           ELSE IF entity = "workers" THEN "UPDATE_WORKER"
                           ELSE "UPDATE_TASK",
                  payload |-> [id |-> id, data |-> Edit(field, value)]])

\* saveGeminiKey with a key that is not blank
saveGeminiKey ==
    Dispatch([type |-> "SET_GEMINI_API_KEY", payload |-> "key"])

\* what enhancedDataValidation may resolve to: additional defects as the
\* service words them (they carry a suggestion and no id)
AiDefect(severity) ==
    [type |-> "ai_insight", entity |-> "system", entityId |-> "system",
     field |-> "workload", message |-> "Workload is unevenly distributed",
     severity |-> severity, suggestion |-> "Rebalance the workload"]

AiResponses == {<<>>, <<AiDefect("info")>>}

IsAiDefect(e) == e.type = "ai_insight"

\* runAiValidation up to its await: the handler keeps the state it was
\* rendered with
RunAiValidationClicked ==
    /\ ~pending
    /\ state.geminiApiKey # ""
    /\ ai.status = "idle"
    /\ Len(SelectSeq(state.validationErrors, IsAiDefect)) < MaxAiDefects
    /\ ai' = [status |-> "awaiting", closure |-> state]
    /\ UNCHANGED <<clients, workers, tasks, cur, prev, state, pending, exported>>

\* runAiValidation from its await on: the service rejected, or its defects
\* are appended to the defects of the closure and stored
RunAiValidationResumed ==
    /\ ~pending
    /\ ai.status = "awaiting"
    /\ ai' = NoAiValidation
    /\ \/ UNCHANGED state
       \/ \E aiErrors \in AiResponses :
             state' = dataReducer(state,
                         [type |-> "SET_VALIDATION_ERRORS",
                          payload |-> ai.closure.validationErrors \o aiErrors])
    /\ UNCHANGED <<clients, workers, tasks, cur, prev, pending, exported>>

\* the counts ExportPanel is rendered with
CriticalErrorsOf(st) ==
    Cardinality({n \in 1..Len(st.validationErrors) :
        st.validationErrors[n].severity = "error"})

WarningsOf(st) ==
    Cardinality({n \in 1..Len(st.validationErrors) :
        st.validationErrors[n].severity = "warning"})

\* join raises a TypeError on a list field that is not an array; this
\* happens before the first file is written and is caught
ExportThrows(st) ==
    \/ \E i \in 1..Len(st.workers) :
           ~st.workers[i].Skills.isArray \/ ~st.workers[i].AvailableSlots.isArray
    \/ \E j \in 1..Len(st.tasks) :
           ~st.tasks[j].RequiredSkills.isArray \/ ~st.tasks[j].PreferredPhases.isArray

ExportOutcome(outcome) ==
    [outcome |-> outcome, criticalErrors |-> CriticalErrorsOf(state),
     warnings |-> WarningsOf(state), totalErrors |-> Len(state.validationErrors)]

\* a variant whose gate counts every stored defect
exportData_AnyDefect ==
    /\ ~pending
    /\ LET canExport == Len(state.validationErrors) = 0
       IN  exported' = ExportOutcome(IF ~canExport THEN "blocked"
                                     ELSE IF ExportThrows(state) THEN "failed"
                                     ELSE "written")
    /\ UNCHANGED <<clients, workers, tasks, cur, prev, state, pending, ai>>

\* exportData: returns at the gate unless canExport; otherwise writes the
\* workbook and the rules file
exportData ==
    /\ ~pending
    /\ LET canExport == CriticalErrorsOf(state) = 0
       IN  exported' = ExportOutcome(IF ~canExport THEN "blocked"
                                     ELSE IF ExportThrows(state) THEN "failed"
                                     ELSE "written")
    /\ UNCHANGED <<clients, workers, tasks, cur, prev, state, pending, ai>>

\* what is uploaded and edited: the parser stores arrays in every list
\* field and a default for an identifier or a name that is missing
AppClientPayloads ==
    {<<>>,
     <<Client("C1", "Acme", 3, Arr(<<>>), "{}")>>,
     <<Client("C1", "Acme", 6, Arr(<<>>), "{}")>>}

AppWorkerPayloads ==
    {<<>>, <<Worker("W1", "Ann", Arr(<<"a">>), Arr(<<1>>), 2)>>}

AppTaskPayloads ==
    {<<>>, <<Task("T1", "Build", 1, Arr(<<"a">>), Arr(<<1>>), 1)>>}

\* the store under uploads, edits and validation runs
NextStore ==
    \/ UploadClients(AppClientPayloads)
    \/ UploadWorkers(AppWorkerPayloads)
    \/ UploadTasks(AppTaskPayloads)
    \/ saveEdit("clients", {"C1"}, "PriorityLevel", {0, 3})
    \/ saveEdit("workers", {"W1"}, "MaxLoadPerPhase", {1})
    \/ saveEdit("tasks", {"T1"}, "Duration", {0})
    \/ ValidationEffect
    \/ RunValidationClicked

SpecStore == Init /\ [][NextStore]_vars

\* the store under uploads and edits while the AI validation and the
\* export are in use
NextAi ==
    \/ UploadClients(AppClientPayloads)
    \/ UploadWorkers(AppWorkerPayloads)
    \/ saveEdit("clients", {"C1"}, "PriorityLevel", {0, 3})
    \/ saveGeminiKey
    \/ ValidationEffect
    \/ RunAiValidationClicked
    \/ RunAiValidationResumed
    \/ exportData

SpecAi == Init /\ [][NextAi]_vars

\* C15: export is performed only when the stored defect list contains no
\* defect of severity 'error': exportData produces no files while any
\* error-severity defect is stored, and warning or info defects alone never
\* block it.
C15_ExportGate ==
    exported.outcome # "none" =>
        /\ exported.criticalErrors > 0 => exported.outcome = "blocked"
        /\ exported.criticalErrors = 0 => exported.outcome = "written"

\* an export that wrote its files with a warning and an info defect stored
C15_Witness ==
    /\ exported.outcome = "written"
    /\ exported.warnings > 0
    /\ exported.totalErrors > exported.warnings
    /\ \E n \in 1..Len(state.validationErrors) : state.validationErrors[n].severity = "info"

\* the list is what validateAll returns for the collections of the store
EngineDefectsOf(st, errors) ==
    /\ ~ValidateAllThrows(st.clients, st.workers, st.tasks)
    /\ \E rnd \in [1..RandomCalls(st.clients, st.workers, st.tasks) -> RandomValues] :
           errors = validateAll(st.clients, st.workers, st.tasks, rnd)

\* C16: after any change to the clients, workers or tasks collection (SET_*
\* or UPDATE_* action) has been processed, the stored validationErrors equal
\* the engine's defects for the current collections, replacing the prior set
\* wholesale; this includes a change that leaves all three collections
\* empty, after which the stored defect list is empty.
C16_StoredDefectsCurrent ==
    ~pending => EngineDefectsOf(state, state.validationErrors)

IsEngineDefect(e) == e.type # "ai_insight"

\* the stored defects, those appended by the AI validation aside, are the
\* engine's defects for the collections now in the store
StoredForCurrent(st) == EngineDefectsOf(st, SelectSeq(st.validationErrors, IsEngineDefect))

\* C17: a newer validation result is never superseded by an older one: once
\* the defects for the current collections have been stored, a step that
\* leaves the collections as they are (in particular the completion of an
\* AI-enhanced validation that was in flight when the data changed) does not
\* replace the stored defects with a list computed from older collections.
C17_NewerNotSuperseded ==
    [][(StoredForCurrent(state) /\ CollectionsOf(state') = CollectionsOf(state))
           => StoredForCurrent(state')]_vars

----------------------------------------------------------------------------
(* Inputs whose records have an identifier, an empty one or none, on an    *)
(* engine that is used for one call, as runValidation uses it.             *)

Identifiers(id) == {id, "", Undefined}

EraseClients ==
    {Client(id, "Acme", 3, Arr(<<>>), "{}") : id \in Identifiers("C1")}
    \cup {Client(id, "Bolt", 6, Arr(<<"T9">>), "{oops") : id \in Identifiers("C2")}

EraseWorkers ==
    {Worker(id, "Ann", Arr(<<"a">>), Arr(<<1>>), 1) : id \in Identifiers("W1")}
    \cup {Worker(id, "Bob", Arr(<<>>), Arr(<<>>), 1) : id \in Identifiers("W2")}

EraseTasks ==
    {Task(id, "Build", 1, Arr(<<"a">>), Arr(<<>>), 1) : id \in Identifiers("T1")}
    \cup {Task(id, "Test", 0, Arr(<<"b">>), Arr(<<>>), 3) : id \in Identifiers("T2")}

\* the collections that hold at most MaxErased records together
ErasedInputs ==
    UNION {[1..size[1] -> EraseClients] \X [1..size[2] -> EraseWorkers]
               \X [1..size[3] -> EraseTasks] :
           size \in {n \in (0..MaxErased) \X (0..MaxErased) \X (0..MaxErased) :
                         n[1] + n[2] + n[3] <= MaxErased}}

\* the first setData on a new engine, the three collections drawn together
SetRecords ==
    /\ Fresh
    /\ \E cwt \in ErasedInputs : setData(cwt[1], cwt[2], cwt[3])

\* validateAll() on an engine that has not been called
ValidateOnce ==
    /\ cur = NoCall
    /\ ValidateAll

NextErase == SetRecords \/ ValidateOnce

SpecErase == Init /\ [][NextErase]_vars

\* the kinds of the checks that follow the identifier checks and report on
\* a record
IsLaterKind(e) ==
    e.type \in {"out_of_range", "broken_json", "unknown_reference", "overloaded_worker",
                "skill_coverage", "max_concurrency"}

\* a defect without what names its record
Shape(e) ==
    [type |-> e.type, entity |-> e.entity, field |-> e.field, message |-> e.message,
     severity |-> e.severity]

LaterShapes(errors) ==
    LET later == SelectSeq(errors, IsLaterKind)
    IN  [n \in 1..Len(later) |-> Shape(later[n])]

\* the records, each one without an identifier given one of its own
Identified(records, field, prefix) ==
    [i \in 1..Len(records) |->
        IF Falsy(records[i][field])
        THEN [records[i] EXCEPT ![field] = prefix \o ToString(i)]
        ELSE records[i]]

\* the later checks report on the records as they do when every record has
\* an identifier, whatever the identifier checks reported
LaterChecksAlike ==
    LaterShapes(cur.errors) =
        LaterShapes(validateAll(Identified(cur.clients, "ClientID", "RC"),
                                Identified(cur.workers, "WorkerID", "RW"),
                                Identified(cur.tasks, "TaskID", "RT"), <<>>))

Unidentified(ids) == Cardinality({i \in 1..Len(ids) : Falsy(ids[i])})

\* two records without identifier in a collection: some duplicate_id defect
\* for the collection carries an empty or absent entityId
TwoUnidentifiedDuplicate(errors, entity, ids) ==
    Unidentified(ids) >= 2 =>
        \E n \in 1..Len(errors) :
            /\ errors[n].type = "duplicate_id"
            /\ errors[n].entity = entity
            /\ Falsy(errors[n].entityId)

\* k records with the same identifier value, empty or absent: k-1 defects
EqualUnidentifiedDuplicate(errors, entity, ids) ==
    \A v \in {"", Undefined} :
        DuplicateDefects(errors, entity, v) =
            (IF Occurrences(ids, v) = 0 THEN 0 ELSE Occurrences(ids, v) - 1)

\* C18 as stated: a record whose identifier is empty or absent yields
\* out_of_range, broken_json, unknown_reference, overloaded_worker,
\* skill_coverage and max_concurrency defects under exactly the same
\* conditions as a record with an identifier, whatever an earlier check
\* reported, and any two such records in one collection yield a duplicate_id
\* defect.
C18_Unidentified_AnyTwo ==
    cur.status = "returned" =>
        /\ LaterChecksAlike
        /\ TwoUnidentifiedDuplicate(cur.errors, "clients", ClientIDsOf(cur.clients))
        /\ TwoUnidentifiedDuplicate(cur.errors, "workers", WorkerIDsOf(cur.workers))
        /\ TwoUnidentifiedDuplicate(cur.errors, "tasks", TaskIDsOf(cur.tasks))

\* C18 (amended): as above, but two records without identifier yield a
\* duplicate_id defect when their identifier values are equal, both empty or
\* both absent; k such records yield k-1 defects.
C18_Unidentified ==
    cur.status = "returned" =>
        /\ LaterChecksAlike
        /\ EqualUnidentifiedDuplicate(cur.errors, "clients", ClientIDsOf(cur.clients))
        /\ EqualUnidentifiedDuplicate(cur.errors, "workers", WorkerIDsOf(cur.workers))
        /\ EqualUnidentifiedDuplicate(cur.errors, "tasks", TaskIDsOf(cur.tasks))

\* two clients with an empty identifier: one duplicate_id defect, and the
\* second is reported out of range, with broken JSON and an unknown reference
C18_Witness ==
    /\ cur.status = "returned"
    /\ ClientIDsOf(cur.clients) = <<"", "">>
    /\ cur.clients[2].PriorityLevel = 6
    /\ DuplicateDefects(cur.errors, "clients", "") = 1
    /\ \A kind \in {"missing_required_field", "out_of_range", "broken_json",
                      "unknown_reference"} :
           \E n \in 1..Len(cur.errors) :
               cur.errors[n].type = kind /\ cur.errors[n].entity = "clients"

----------------------------------------------------------------------------
(* Inputs whose records lack an identifier, a display name or both.        *)

Names(name) == {name, "", Undefined}

MissingClients ==
    {Client(id, name, 3, Arr(<<>>), "{}") : id \in Identifiers("C1"), name \in Names("Acme")}

MissingWorkers ==
    {Worker(id, name, Arr(<<>>), Arr(<<1>>), 1) :
        id \in Identifiers("W1"), name \in Names("Ann")}

MissingTasks ==
    {Task(id, name, 1, Arr(<<>>), Arr(<<>>), 0) :
        id \in Identifiers("T1"), name \in Names("Build")}

\* the collections that hold at most MaxMissing records together
MissingInputs ==
    UNION {[1..size[1] -> MissingClients] \X [1..size[2] -> MissingWorkers]
               \X [1..size[3] -> MissingTasks] :
           size \in {n \in (0..MaxMissing) \X (0..MaxMissing) \X (0..MaxMissing) :
                         n[1] + n[2] + n[3] <= MaxMissing}}

\* the first setData on a new engine, the three collections drawn together
SetIncomplete ==
    /\ Fresh
    /\ \E cwt \in MissingInputs : setData(cwt[1], cwt[2], cwt[3])

NextMissing == SetIncomplete \/ ValidateOnce

SpecMissing == Init /\ [][NextMissing]_vars

IsMissingRequiredField(e) == e.type = "missing_required_field"

\* what the required-field check is to report for the records of one
\* collection, in order: for a record without identifier a defect on the
\* identifier field, then for a record without name one on the name field,
\* each keyed by the identifier if the record has one and by the
\* placeholder if not
ExpectedMissing(records, entity, idField, nameField) ==
    Flatten([i \in 1..Len(records) |->
        LET key == IF Falsy(records[i][idField]) THEN "unknown" ELSE records[i][idField]
        IN  (IF Falsy(records[i][idField])
             THEN <<[entity |-> entity, field |-> idField, entityId |-> key]>> ELSE <<>>)
            \o
            (IF Falsy(records[i][nameField])
             THEN <<[entity |-> entity, field |-> nameField, entityId |-> key]>>
             ELSE <<>>)])

ExpectedMissingAll(cs, ws, ts) ==
    ExpectedMissing(cs, "clients", "ClientID", "ClientName")
    \o ExpectedMissing(ws, "workers", "WorkerID", "WorkerName")
    \o ExpectedMissing(ts, "tasks", "TaskID", "TaskName")

\* C19: every missing_required_field defect carries as entityId the
\* record's own identifier when that identifier is non-empty and a
\* placeholder otherwise; this holds both for the defect on the identifier
\* field and for the defect on the display-name field of a record that has
\* neither identifier nor name.
C19_EntityKey ==
    cur.status = "returned" =>
        LET missing == SelectSeq(cur.errors, IsMissingRequiredField)
            expected == ExpectedMissingAll(cur.clients, cur.workers, cur.tasks)
        IN  Len(missing) = Len(expected) =>
                \A n \in 1..Len(missing) : missing[n].entityId = expected[n].entityId

\* C20: for each client, worker and task, the result contains one
\* missing_required_field defect on the identifier field iff the identifier
\* is empty or absent, and one on the display-name field iff the display
\* name is empty or absent; a record with both missing yields both defects,
\* the identifier one first.
C20_RequiredFields ==
    cur.status = "returned" =>
        LET missing == SelectSeq(cur.errors, IsMissingRequiredField)
            expected == ExpectedMissingAll(cur.clients, cur.workers, cur.tasks)
        IN  /\ Len(missing) = Len(expected)
            /\ \A n \in 1..Len(missing) :
                   /\ missing[n].entity = expected[n].entity
                   /\ missing[n].field = expected[n].field
                   /\ missing[n].severity = "error"

\* a worker with neither identifier nor name, reported for WorkerID and then
\* for WorkerName, next to a task with an identifier and an absent name,
\* reported for TaskName only
C20_Witness ==
    /\ cur.status = "returned"
    /\ Len(cur.workers) = 1 /\ Len(cur.tasks) = 1
    /\ cur.workers[1].WorkerID = "" /\ cur.workers[1].WorkerName = Undefined
    /\ cur.tasks[1].TaskID = "T1" /\ cur.tasks[1].TaskName = Undefined
    /\ Len(cur.errors) = 3
    /\ cur.errors[1].field = "WorkerID"
    /\ cur.errors[2].field = "WorkerName"
    /\ cur.errors[3].field = "TaskName"

----------------------------------------------------------------------------
(* Workers whose AvailableSlots is not an array, or an array with entries  *)
(* that are positive, zero, negative or not an integer.  Worker i is named *)
(* Wi.                                                                     *)

MaxSlots == 2          \* entries of AvailableSlots
MaxSlotWorkers == 2    \* workers

\* the first setData on a new engine, with workers of these slot lists
SetSlots ==
    /\ Fresh
    /\ \E n \in 0..MaxSlotWorkers :
       \E lists \in [1..n -> {NotArray} \cup
                {Arr(items) : items \in SeqsUpTo({1, 0, -1, FractionBase + 1}, MaxSlots)}] :
           setData(<<>>,
                   [i \in 1..n |-> Worker("W" \o ToString(i), "Ann", Arr(<<>>), lists[i], 1)],
                   <<>>)

NextSlots == SetSlots \/ ValidateOnce

SpecSlots == Init /\ [][NextSlots]_vars

\* how many malformed_list defects the worker is to get
ExpectedMalformed(worker) ==
    IF ~worker.AvailableSlots.isArray THEN 1
    ELSE Cardinality({k \in 1..Len(worker.AvailableSlots.items) :
            LET slot == worker.AvailableSlots.items[k]
            IN  slot >= FractionBase \/ slot <= 0})

DefectsOf(errors, kind, entityId) ==
    Cardinality({n \in 1..Len(errors) : errors[n].type = kind /\ errors[n].entityId = entityId})

\* C21: for each worker, the result contains exactly one malformed_list
\* defect if AvailableSlots is not a sequence; otherwise it contains one
\* malformed_list defect for each element of AvailableSlots that is not a
\* positive integer (zero, negative or non-integer) and none for elements
\* that are positive integers.  A call that raised has no result, so its
\* result contains no defect.
C21_MalformedLists ==
    cur.status # "none" =>
        \A i \in 1..Len(cur.workers) :
            DefectsOf(cur.errors, "malformed_list", cur.workers[i].WorkerID)
                = ExpectedMalformed(cur.workers[i])

----------------------------------------------------------------------------
(* Workers with a load below, at or above the number of entries of         *)
(* AvailableSlots, valid or not.  Worker i is named Wi.                    *)

\* the first setData on a new engine, with workers of these shapes
SetLoads ==
    /\ Fresh
    /\ \E n \in 0..MaxSlotWorkers :
       \E shapes \in [1..n ->
                [slots : {NotArray} \cup {Arr(items) : items \in SeqsUpTo({1, 0}, MaxSlots)},
                 load : 1..(MaxSlots + 1)]] :
           setData(<<>>,
                   [i \in 1..n |-> Worker("W" \o ToString(i), "Ann", Arr(<<>>),
                                          shapes[i].slots, shapes[i].load)],
                   <<>>)

NextLoad == SetLoads \/ ValidateOnce

SpecLoad == Init /\ [][NextLoad]_vars

\* C22: for each worker, the result contains exactly one overloaded_worker
\* warning iff the number of entries in AvailableSlots is strictly smaller
\* than MaxLoadPerPhase; a worker whose slot count equals or exceeds
\* MaxLoadPerPhase yields none.
C22_OverloadedWorkers ==
    cur.status = "returned" =>
        /\ \A i \in 1..Len(cur.workers) :
               DefectsOf(cur.errors, "overloaded_worker", cur.workers[i].WorkerID)
                   = IF Len(cur.workers[i].AvailableSlots.items) < cur.workers[i].MaxLoadPerPhase
                     THEN 1 ELSE 0
        /\ \A n \in 1..Len(cur.errors) :
               cur.errors[n].type = "overloaded_worker" => cur.errors[n].severity = "warning"

\* one worker with fewer entries than its load and one with as many: the
\* first alone is reported
C22_Witness ==
    /\ cur.status = "returned"
    /\ Len(cur.workers) = 2
    /\ Len(cur.workers[1].AvailableSlots.items) = 1 /\ cur.workers[1].MaxLoadPerPhase = 2
    /\ Len(cur.workers[2].AvailableSlots.items) = 2 /\ cur.workers[2].MaxLoadPerPhase = 2
    /\ DefectsOf(cur.errors, "overloaded_worker", "W1") = 1
    /\ DefectsOf(cur.errors, "overloaded_worker", "W2") = 0

----------------------------------------------------------------------------
(* Clients whose AttributesJSON is JSON text, other text, empty or absent, *)
(* some of them requesting a task that does not exist, next to one worker  *)
(* with fewer slots than its load.  Client i is named Ci.                  *)

MaxJsonClients == 2

\* the first setData on a new engine, with clients of these shapes
SetJson ==
    /\ Fresh
    /\ \E n \in 0..MaxJsonClients :
       \E shapes \in [1..n -> [json : {"{}", "{\"k\":1}", "{oops", "", Undefined},
                               req : {Arr(<<>>), Arr(<<"T9">>)}]] :
           setData([i \in 1..n |-> Client("C" \o ToString(i), "Acme", 3,
                                          shapes[i].req, shapes[i].json)],
                   <<Worker("W1", "Ann", Arr(<<>>), Arr(<<>>), 1)>>,
                   <<>>)

NextJson == SetJson \/ ValidateOnce

SpecJson == Init /\ [][NextJson]_vars

\* the texts of the model that are JSON
ParsesAsJSON(text) == text \in {"{}", "{\"k\":1}", "[]", "null"}

\* C23: for each client, the result contains exactly one broken_json defect
\* iff its AttributesJSON does not parse as JSON (including when the field
\* is absent), and the parse failure of one client does not prevent later
\* clients or later checks from being evaluated: the call returns, with the
\* unknown_reference defects of every client and the overloaded_worker
\* warning of the worker.
C23_BrokenJSON ==
    cur.status # "none" =>
        /\ cur.status = "returned"
        /\ \A i \in 1..Len(cur.clients) :
               /\ DefectsOf(cur.errors, "broken_json", cur.clients[i].ClientID)
                      = IF ParsesAsJSON(cur.clients[i].AttributesJSON) THEN 0 ELSE 1
               /\ DefectsOf(cur.errors, "unknown_reference", cur.clients[i].ClientID)
                      = Len(cur.clients[i].RequestedTaskIDs.items)
        /\ \A i \in 1..Len(cur.workers) :
               DefectsOf(cur.errors, "overloaded_worker", cur.workers[i].WorkerID) = 1
        /\ \A n \in 1..Len(cur.errors) :
               cur.errors[n].type = "broken_json" =>
                   cur.errors[n].severity = "error" /\ cur.errors[n].field = "AttributesJSON"

\* a client whose text is not JSON before one whose field is absent and
\* which requests an unknown task: both are reported, and so are the unknown
\* task and the overloaded worker
C23_Witness ==
    /\ cur.status = "returned"
    /\ Len(cur.clients) = 2
    /\ cur.clients[1].AttributesJSON = "{oops"
    /\ cur.clients[2].AttributesJSON = Undefined
    /\ DefectsOf(cur.errors, "broken_json", "C1") = 1
    /\ DefectsOf(cur.errors, "broken_json", "C2") = 1
    /\ DefectsOf(cur.errors, "unknown_reference", "C2") = 1
    /\ DefectsOf(cur.errors, "overloaded_worker", "W1") = 1

----------------------------------------------------------------------------
(* Clients and tasks with list fields of several entries, in every order,  *)
(* and with a scalar out of range each.  Client i is named Ci, task j Tj;  *)
(* the one worker has skill a.                                             *)

MaxSeqRecords == 2    \* clients and tasks together
MaxSeqList == 2       \* entries of RequestedTaskIDs or RequiredSkills

\* the first setData on a new engine, with at most MaxSeqRecords clients
\* and tasks together
SetSequences ==
    /\ Fresh
    /\ \E n \in 0..MaxSeqRecords, m \in 0..MaxSeqRecords :
           /\ n + m <= MaxSeqRecords
           /\ \E reqs \in [1..n -> SeqsUpTo({"T1", "T8", "T9"}, MaxSeqList)],
                 skills \in [1..m -> SeqsUpTo({"a", "x", "y"}, MaxSeqList)] :
                  setData([i \in 1..n |->
                              Client("C" \o ToString(i), "Acme", 6, Arr(reqs[i]), "{oops")],
                          <<Worker("W1", "Ann", Arr(<<"a">>), Arr(<<1>>), 1)>>,
                          [j \in 1..m |->
                              Task("T" \o ToString(j), "Build", 0, Arr(skills[j]),
                                   Arr(<<>>), 1)])

NextSeq == SetSequences \/ ValidateOnce

SpecSeq == Init /\ [][NextSeq]_vars

\* the position in its collection of the record that the defect concerns
RecordIndex(call, e) ==
    IF e.entity = "clients"
    THEN CHOOSE i \in 1..Len(call.clients) : call.clients[i].ClientID = e.entityId
    ELSE IF e.entity = "workers"
    THEN CHOOSE i \in 1..Len(call.workers) : call.workers[i].WorkerID = e.entityId
    ELSE CHOOSE j \in 1..Len(call.tasks) : call.tasks[j].TaskID = e.entityId

\* of the defects of one kind, whom and what they concern, in result order
Concerning(errors, kind) ==
    LET IsKind(e) == e.type = kind
        found == SelectSeq(errors, IsKind)
    IN  [n \in 1..Len(found) |-> <<found[n].entityId, found[n].message>>]

\* the entries of the list that are not in the known set, in list order,
\* each with the record's identifier and the message that names the entry
AbsentInOrder(id, items, known, before, after) ==
    Flatten([k \in 1..Len(items) |->
        IF items[k] \in known THEN <<>> ELSE <<(<<id, before \o items[k] \o after>>)>>])

\* C24: within one check, defects follow the input order of the records:
\* for any two defects of the same kind concerning the same collection, the
\* defect for the record that appears earlier in that collection comes
\* first, and for one record the defects follow the order of the elements of
\* its list field.
C24_InputOrder ==
    cur.status = "returned" =>
        /\ \A n, m \in 1..Len(cur.errors) :
               (/\ n < m
                /\ cur.errors[n].type = cur.errors[m].type
                /\ cur.errors[n].entity = cur.errors[m].entity
                /\ cur.errors[n].entity # "system")
               => RecordIndex(cur, cur.errors[n]) <= RecordIndex(cur, cur.errors[m])
        /\ Concerning(cur.errors, "unknown_reference")
               = Flatten([i \in 1..Len(cur.clients) |->
                     AbsentInOrder(cur.clients[i].ClientID,
                                   cur.clients[i].RequestedTaskIDs.items,
                                   {cur.tasks[j].TaskID : j \in 1..Len(cur.tasks)},
                                   "Referenced TaskID '", "' does not exist")])
        /\ Concerning(cur.errors, "skill_coverage")
               = Flatten([j \in 1..Len(cur.tasks) |->
                     AbsentInOrder(cur.tasks[j].TaskID,
                                   cur.tasks[j].RequiredSkills.items,
                                   {"a"},
                                   "Required skill '", "' is not available in any worker")])

\* two clients that request the same two unknown tasks in opposite order:
\* the four defects come client by client, each client's in its list order
C24_Witness ==
    /\ cur.status = "returned"
    /\ Len(cur.clients) = 2
    /\ cur.clients[1].RequestedTaskIDs.items = <<"T9", "T8">>
    /\ cur.clients[2].RequestedTaskIDs.items = <<"T8", "T9">>
    /\ Concerning(cur.errors, "unknown_reference")
           = << <<"C1", "Referenced TaskID 'T9' does not exist">>,
                <<"C1", "Referenced TaskID 'T8' does not exist">>,
                <<"C2", "Referenced TaskID 'T8' does not exist">>,
                <<"C2", "Referenced TaskID 'T9' does not exist">> >>

----------------------------------------------------------------------------
(* One engine used again and again: setData with new collections after     *)
(* earlier setData and validateAll calls, on data with and without defects *)
(* and on data that makes validateAll raise.                               *)

MaxReuse == 1    \* clients per collection, where the engine is used again

ReuseClients ==
    {Client("C1", "Acme", 3, Arr(<<>>), "{}"), Client("", "Acme", 6, Arr(<<"T1">>), "{}")}

\* setData on an engine whatever it holds and whatever it did before
SetDataAgain ==
    \E c \in SeqsUpTo(ReuseClients, MaxReuse),
       w \in {<<>>, <<Worker("W1", "Ann", Arr(<<>>), NotArray, 1)>>},
       t \in {<<>>, <<Task("T1", "Build", 1, Arr(<<"a">>), Arr(<<1>>), 1)>>} :
        setData(c, w, t)

NextReuse == SetDataAgain \/ ValidateAll

SpecReuse == Init /\ [][NextReuse]_vars

\* what validateAll can do on an engine that was created, given the
\* collections by its first setData and called at once
FreshEngineCalls(c, w, t) ==
    IF \/ \E i \in 1..Len(c) : ~c[i].RequestedTaskIDs.isArray
       \/ \E i \in 1..Len(w) : ~w[i].AvailableSlots.isArray \/ ~w[i].Skills.isArray
       \/ \E j \in 1..Len(t) : ~t[j].RequiredSkills.isArray \/ ~t[j].PreferredPhases.isArray
    THEN {Call("threw", c, w, t, <<>>)}
    ELSE {Call("returned", c, w, t, validateAll(c, w, t, rnd)) :
             rnd \in [1..RandomCalls(c, w, t) -> RandomValues]}

\* C25: the engine carries nothing from one call to the next: on an engine
\* instance reused across calls, validateAll after setData(B) returns
\* exactly what a freshly created engine returns for B, whatever data and
\* results earlier setData/validateAll calls on that instance involved.
C25_NothingCarriedOver ==
    cur.status # "none" => cur \in FreshEngineCalls(cur.clients, cur.workers, cur.tasks)

\* a call that reported defects, then other data and a call that reports none
C25_Witness ==
    /\ prev.status = "returned" /\ Len(prev.errors) > 0
    /\ cur.status = "returned" /\ cur.errors = <<>>
    /\ Len(cur.clients) > 0 /\ cur.clients # prev.clients

----------------------------------------------------------------------------
\* C26: within a single validateAll result no two defects have the same id,
\* for any input including an identifier repeated three or more times in a
\* collection, a repeated invalid slot value in one worker's AvailableSlots,
\* a repeated absent task id in one client's RequestedTaskIDs, or two
\* records sharing an identifier that both violate the same check.
C26_UniqueDefectIds ==
    cur.status = "returned" =>
        \A n, m \in 1..Len(cur.errors) : n # m => cur.errors[n].id # cur.errors[m].id

----------------------------------------------------------------------------
(* Two validateAll calls on one engine and the same collections, where     *)
(* some clients lack identifier or name (so that ids are drawn at random)  *)
(* and clients, workers and tasks have other defects too.                  *)

MaxTwice == 1    \* records per collection, where validateAll runs twice

TwiceClients ==
    {Client("C1", "Acme", 3, Arr(<<>>), "{}"),
     Client("", "Acme", 6, Arr(<<"T9">>), "{oops"),
     Client("C2", "", 3, Arr(<<>>), "{}")}

TwiceWorkers ==
    {Worker("W1", "Ann", Arr(<<"a">>), Arr(<<1>>), 1),
     Worker("W1", "Ann", Arr(<<>>), Arr(<<0>>), 2)}

TwiceTasks ==
    {Task("T1", "Build", 1, Arr(<<>>), Arr(<<>>), 0),
     Task("T1", "Build", 0, Arr(<<"z">>), Arr(<<1>>), 3)}

\* the first setData on a new engine
SetTwice ==
    /\ Fresh
    /\ \E n, m, k \in 0..MaxTwice :
           \E c \in [1..n -> TwiceClients], w \in [1..m -> TwiceWorkers],
              t \in [1..k -> TwiceTasks] :
               setData(c, w, t)

\* setData once, validateAll for the first or the second time on this engine
NextTwice == SetTwice \/ (prev = NoCall /\ ValidateAll)

SpecTwice == Init /\ [][NextTwice]_vars

\* C27: two validateAll runs on the same unmodified data return defect
\* sequences of the same length whose defects agree position by position on
\* type, entity, entityId, field, message and severity; the only field that
\* can differ between the runs is id, and only on missing_required_field
\* defects.
C27_RunsAgreeButForIds ==
    TwoRunsOnSameData =>
        /\ Len(cur.errors) = Len(prev.errors)
        /\ \A n \in 1..Len(cur.errors) :
               /\ cur.errors[n].type = prev.errors[n].type
               /\ cur.errors[n].entity = prev.errors[n].entity
               /\ cur.errors[n].entityId = prev.errors[n].entityId
               /\ cur.errors[n].field = prev.errors[n].field
               /\ cur.errors[n].message = prev.errors[n].message
               /\ cur.errors[n].severity = prev.errors[n].severity
               /\ cur.errors[n].id # prev.errors[n].id
                      => cur.errors[n].type = "missing_required_field"

\* two runs on a client without identifier, priority 6 and broken JSON: the
\* ids of the first defect differ, the out_of_range defects are the same
C27_Witness ==
    /\ TwoRunsOnSameData
    /\ Len(cur.errors) >= 3
    /\ cur.errors[1].type = "missing_required_field"
    /\ cur.errors[1].id # prev.errors[1].id
    /\ cur.errors[2].type = "out_of_range"
    /\ cur.errors[2] = prev.errors[2]

----------------------------------------------------------------------------
\* the defect is a skill_coverage defect for this task record: it carries
\* the task's identifier and names one of its required skills
CoverageDefectOf(e, task) ==
    /\ e.type = "skill_coverage"
    /\ e.entityId = task.TaskID
    /\ \E k \in 1..Len(task.RequiredSkills.items) :
           e.message = "Required skill '" \o task.RequiredSkills.items[k]
                           \o "' is not available in any worker"

\* the result warns that the task allows more instances than its zero
\* qualified workers
WarnsOfNoQualified(errors, task) ==
    \E m \in 1..Len(errors) :
        /\ errors[m].type = "max_concurrency"
        /\ errors[m].entityId = task.TaskID
        /\ errors[m].severity = "warning"
        /\ errors[m].message = "MaxConcurrent (" \o ToString(task.MaxConcurrent)
                                   \o ") exceeds qualified workers (0)"

\* C28: whenever the result contains a skill_coverage defect for a task,
\* that task has zero qualified workers, so the same result also contains a
\* max_concurrency warning for that task if its MaxConcurrent is at least 1.
C28_UncoveredIsInfeasible ==
    cur.status = "returned" =>
        \A n \in 1..Len(cur.errors), j \in 1..Len(cur.tasks) :
            CoverageDefectOf(cur.errors[n], cur.tasks[j]) =>
                /\ Qualified(cur.workers, cur.tasks[j]) = 0
                /\ cur.tasks[j].MaxConcurrent >= 1
                       => WarnsOfNoQualified(cur.errors, cur.tasks[j])

\* two workers, one of them with skill a, and a task that requires a and b
\* and allows one instance: b is reported as uncovered and the task as
\* infeasible with zero qualified workers
C28_Witness ==
    /\ cur.status = "returned"
    /\ Len(cur.workers) = 2 /\ Len(cur.tasks) = 1
    /\ \E i \in 1..2 : cur.workers[i].Skills.items = <<"a">>
    /\ cur.tasks[1].RequiredSkills.items = <<"a", "b">>
    /\ cur.tasks[1].MaxConcurrent = 1
    /\ \E n \in 1..Len(cur.errors) : CoverageDefectOf(cur.errors[n], cur.tasks[1])
    /\ WarnsOfNoQualified(cur.errors, cur.tasks[1])

----------------------------------------------------------------------------
(* Tasks that prefer up to two phases each, small ones and ones from       *)
(* 2^32 - 1 on, in every order, with no worker or with one worker that     *)
(* covers phase 1.                                                         *)

MaxKeyTasks == 2

KeyLists ==
    LET phases == {1, 2, LargeBase, LargeBase + 1}
    IN  {<<>>} \cup {<<p>> : p \in phases} \cup {<<p, q>> : p, q \in phases}

\* the first setData on a new engine
SetPhases ==
    /\ Fresh
    /\ \E w \in {<<>>, <<Worker("W1", "Ann", Arr(<<>>), Arr(<<1>>), 5)>>},
          n \in 0..MaxKeyTasks : \E lists \in [1..n -> KeyLists] :
           setData(<<>>, w,
                   [j \in 1..n |-> Task("T" \o ToString(j), "Build", 1, Arr(<<>>),
                                        Arr(lists[j]), 0)])

NextKeys == SetPhases \/ ValidateOnce

SpecKeys == Init /\ [][NextKeys]_vars

PreferredBy(ts) == UNION {Range(ts[j].PreferredPhases.items) : j \in 1..Len(ts)}

IsPhaseSaturation(e) == e.type = "phase_saturation"

\* the phases of the phase_saturation defects, in result order
SaturatedPhases(call) ==
    LET found == SelectSeq(call.errors, IsPhaseSaturation)
    IN  [n \in 1..Len(found) |->
            CHOOSE p \in PreferredBy(call.tasks) :
                found[n].id = "phase-saturation-" \o NumberString(p)]

Ascending(phases) == \A n, m \in 1..Len(phases) : n < m => phases[n] < phases[m]

----------------------------------------------------------------------------
(* The store under grid edits: cells of records that share an identifier,  *)
(* of records that are alone with theirs, and of a record that an upload   *)
(* has meanwhile replaced; the identifier cell itself is edited too.       *)

NextEdit ==
    \/ UploadClients(
          {<<>>,
           <<Client("C1", "Acme", 3, Arr(<<>>), "{}")>>,
           <<Client("C1", "Acme", 3, Arr(<<>>), "{}"), Client("C1", "Bolt", 6, Arr(<<>>), "{}")>>,
           <<Client("C1", "Acme", 3, Arr(<<>>), "{}"), Client("C2", "Bolt", 3, Arr(<<>>), "{}")>>})
    \/ UploadWorkers(AppWorkerPayloads)
    \/ UploadTasks(AppTaskPayloads)
    \/ saveEdit("clients", {"C1", "C2"}, "PriorityLevel", {0})
    \/ saveEdit("clients", {"C1"}, "ClientID", {"C2"})
    \/ saveEdit("workers", {"W1"}, "MaxLoadPerPhase", {1})
    \/ saveEdit("tasks", {"T1"}, "Duration", {0})
    \/ ValidationEffect

SpecEdit == Init /\ [][NextEdit]_vars

\* the UPDATE actions that the grid dispatches here
UpdateActions ==
    {[type |-> "UPDATE_CLIENT", payload |-> [id |-> id, data |-> Edit("PriorityLevel", 0)]] :
        id \in {"C1", "C2"}}
    \cup {[type |-> "UPDATE_CLIENT", payload |-> [id |-> "C1", data |-> Edit("ClientID", "C2")]],
          [type |-> "UPDATE_WORKER",
           payload |-> [id |-> "W1", data |-> Edit("MaxLoadPerPhase", 1)]],
          [type |-> "UPDATE_TASK", payload |-> [id |-> "T1", data |-> Edit("Duration", 0)]]}

CollectionOf(type) ==
    IF type = "UPDATE_CLIENT" THEN "clients"
    ELSE IF type = "UPDATE_WORKER" THEN "workers" ELSE "tasks"

IdentifierOf(type) ==
    IF type = "UPDATE_CLIENT" THEN "ClientID"
    ELSE IF type = "UPDATE_WORKER" THEN "WorkerID" ELSE "TaskID"

\* what the action may change from st to nx and what it must leave alone
UpdatesOnlyItsRecords(st, nx, action) ==
    LET own == CollectionOf(action.type)
        before == st[own]
        after == nx[own]
    IN  /\ Len(after) = Len(before)
        /\ \A i \in 1..Len(before) :
               IF before[i][IdentifierOf(action.type)] = action.payload.id
               THEN /\ after[i][action.payload.data.field] = action.payload.data.value
                    /\ \A f \in DOMAIN before[i] \ {action.payload.data.field} :
                           after[i][f] = before[i][f]
               ELSE after[i] = before[i]
        /\ \A other \in {"clients", "workers", "tasks"} \ {own} : nx[other] = st[other]
        /\ nx.rules = st.rules
        /\ nx.priorities = st.priorities
        /\ nx.validationErrors = st.validationErrors
        /\ nx.geminiApiKey = st.geminiApiKey

\* C30: an UPDATE_CLIENT, UPDATE_WORKER or UPDATE_TASK action changes only
\* the records of its own collection whose identifier equals the payload id
\* (all of them when several share it), keeps that collection's length and
\* record order, and leaves the other two collections, rules, priorities,
\* validationErrors and geminiApiKey unchanged; when no record has that
\* identifier every record is unchanged.
C30_UpdateFrame ==
    [][\A action \in UpdateActions :
          (~pending /\ pending' /\ state' = dataReducer(state, action))
              => UpdatesOnlyItsRecords(state, state', action)]_vars

\* two clients that share the identifier C1 were both given priority 0 by
\* one edit, while the defect stored for the second one's old priority 6
\* is still in the store
C30_Witness ==
    /\ pending
    /\ Len(state.clients) = 2
    /\ state.clients[1].ClientID = "C1" /\ state.clients[2].ClientID = "C1"
    /\ state.clients[1].PriorityLevel = 0 /\ state.clients[2].PriorityLevel = 0
    /\ state.clients[1].ClientName = "Acme" /\ state.clients[2].ClientName = "Bolt"
    /\ \E n \in 1..Len(state.validationErrors) :
           state.validationErrors[n].id = "invalid-priority-C1"

====
